---- MODULE Spec2Model ----
(***************************************************************************)
(* Model of the retirement-savings computation core (app/core/engine.py,   *)
(* app/core/finance.py, app/core/time_utils.py).                           *)
(*                                                                         *)
(* Numbers.  The program computes on floats and rounds to two decimals     *)
(* with money().  Here every monetary value is an integer number of        *)
(* thousandths of a currency unit ("mills"), so that a submitted amount    *)
(* may carry a third decimal and money() is a real rounding.  The inputs   *)
(* never end in the digit 5 of the third decimal, so no rounding tie       *)
(* (whose outcome depends on the binary float) occurs.                     *)
(*                                                                         *)
(* Optional values.  Python's None is the empty sequence and a present     *)
(* value v is <<v>>.                                                       *)
(*                                                                         *)
(* Timestamps.  A raw timestamp string is a record [fmt, t]: "full" is     *)
(* the 19-character form of the instant t (seconds), "short" the           *)
(* 16-character form (whole minutes only), "bad" a string that does not    *)
(* parse and "empty" the empty string.                                     *)
(***************************************************************************)
EXTENDS Integers, Sequences, FiniteSets, TLC

VARIABLES
    pc,             \* "ready" before the call of the request, then the name of the call made
    raw,            \* the raw transaction records of the request
    q_periods,      \* built q periods (engine.py:_build_periods)
    p_periods,      \* built p periods
    k_periods,      \* built k periods
    wage,           \* validator: wage
    max_investment, \* validator: optional maxInvestment
    instrument,     \* returns: "nps" or "index"
    age,            \* returns: age
    inflation,      \* returns: inflation as submitted, in units of 0.001
    transactions,   \* canonical transactions the temporal engine works on
    result          \* the value returned by the call

vars == <<pc, raw, q_periods, p_periods, k_periods, wage, max_investment, instrument, age, inflation, transactions, result>>

-----------------------------------------------------------------------------
(* Bounds of the model *)

MaxEpoch == 2
MaxTx == 2
MaxQ == 2
MaxP == 2
MaxK == 2

-----------------------------------------------------------------------------
(* Units and optional values *)

Scale == 10 ^ 3                 \* mills per currency unit
Cent == Scale \div (10 ^ 2)     \* mills per 0.01

None == <<>>
Some(v) == <<v>>
IsNone(o) == o = <<>>
Val(o) == o[1]

Range(s) == {s[i] : i \in 1..Len(s)}

RECURSIVE SumSeq(_)
SumSeq(s) == IF s = <<>> THEN 0 ELSE s[1] + SumSeq(Tail(s))

-----------------------------------------------------------------------------
(* app/core/finance.py *)

HUNDRED == 100 * Scale
AmountLimit == 500000 * Scale

\* money(value): round to two decimals.
money(value) ==
    LET q == value \div Cent
        r == value - Cent * q
    IN  IF 2 * r < Cent THEN Cent * q
        ELSE IF 2 * r > Cent THEN Cent * (q + 1)
        ELSE IF q % 2 = 0 THEN Cent * q ELSE Cent * (q + 1)

\* next_multiple_of_100(amount), for amount >= 0 (every caller checks it):
\* ceiling division on the exact decimal value.
next_multiple_of_100(amount) ==
    LET multiplier == -((-amount) \div HUNDRED)
    IN  money(multiplier * HUNDRED)

remanent_from_amount(amount) ==
    LET ceiling == next_multiple_of_100(amount)
    IN  money(ceiling - amount)

-----------------------------------------------------------------------------
(* app/core/time_utils.py *)

Epochs == 0..MaxEpoch

FullTs(t) == [fmt |-> "full", t |-> t]
ShortTs(t) == [fmt |-> "short", t |-> t]
BadTs == [fmt |-> "bad", t |-> 0]
EmptyTs == [fmt |-> "empty", t |-> 0]

TimestampError == "Invalid timestamp format. Expected 'YYYY-MM-DD HH:mm:ss' (or HH:mm)."

\* parse_timestamp_to_epoch(value): the normalized 19-character string and
\* the epoch, or the error raised.
parse_timestamp_to_epoch(value) ==
    IF value.fmt = "empty"
    THEN [ok |-> FALSE, error |-> "Timestamp must be a non-empty string."]
    ELSE IF value.fmt = "bad"
    THEN [ok |-> FALSE, error |-> TimestampError]
    ELSE [ok |-> TRUE, normalized |-> FullTs(value.t), epoch |-> value.t]

\* Python's `a or b` on two optional strings: a when it is a non-empty
\* string, b otherwise.
Truthy(o) == ~IsNone(o) /\ Val(o).fmt # "empty"
PyOr(a, b) == IF Truthy(a) THEN a ELSE b

-----------------------------------------------------------------------------
(* app/core/engine.py: canonicalization *)

Err(msg) == [ok |-> FALSE, error |-> msg]

\* _to_float(value, field_name) on an optional number
to_float_missing(field_name) == "Missing field: " \o field_name

_canonical_transaction(transaction, enforce_amount_limit, require_ceiling_and_remanent) ==
    LET timestamp_raw == PyOr(transaction.date, transaction.timestamp)
    IN
    IF IsNone(timestamp_raw)
    THEN Err("Transaction must include 'date' or 'timestamp'.")
    ELSE
    LET parsed == parse_timestamp_to_epoch(Val(timestamp_raw))
    IN
    IF ~parsed.ok THEN Err(parsed.error)
    ELSE IF IsNone(transaction.amount) THEN Err(to_float_missing("amount"))
    ELSE
    LET amount == Val(transaction.amount)
    IN
    IF amount < 0 THEN Err("Amount cannot be negative.")
    ELSE IF enforce_amount_limit /\ amount >= AmountLimit
    THEN Err("Amount must be < 500000 as per challenge constraints.")
    ELSE IF require_ceiling_and_remanent /\ IsNone(transaction.ceiling)
    THEN Err(to_float_missing("ceiling"))
    ELSE IF require_ceiling_and_remanent /\ IsNone(transaction.remanent)
    THEN Err(to_float_missing("remanent"))
    ELSE
    LET ceiling == IF ~IsNone(transaction.ceiling)
                   THEN Val(transaction.ceiling)
                   ELSE next_multiple_of_100(amount)
        remanent == IF ~IsNone(transaction.remanent)
                    THEN Val(transaction.remanent)
                    ELSE remanent_from_amount(amount)
    IN
    IF ceiling < amount THEN Err("Ceiling cannot be lower than amount.")
    ELSE IF remanent < 0 THEN Err("Remanent cannot be negative.")
    ELSE [ok |-> TRUE,
          tx |-> [date |-> parsed.normalized,
                  timestamp |-> parsed.normalized,
                  epoch |-> parsed.epoch,
                  amount |-> money(amount),
                  ceiling |-> money(ceiling),
                  remanent |-> money(remanent),
                  adjusted_remanent |-> None]]

-----------------------------------------------------------------------------
(* Python built-ins used by the engine *)

\* Lexicographic order of two tuples of the same length (Python's tuple <).
LexLess(a, b) ==
    \E i \in 1..Len(a) : a[i] < b[i] /\ \A j \in 1..(i - 1) : a[j] = b[j]

\* sorted(s, key=...): the stable sort of s, where key[i] is the tuple that
\* the key function gives s[i] (the elements themselves when no key is given).
sorted(s, key) ==
    LET n == Len(s)
        Before(j, i) == LexLess(key[j], key[i]) \/ (~LexLess(key[i], key[j]) /\ j < i)
        rank(i) == Cardinality({j \in 1..n : Before(j, i)})
    IN  [r \in 1..n |-> s[CHOOSE i \in 1..n : rank(i) = r - 1]]

\* bisect_left(a, x) and bisect_right(a, x): binary search over the
\* 0-based positions lo..hi of the sequence a.
RECURSIVE bisect_left_from(_, _, _, _)
bisect_left_from(a, x, lo, hi) ==
    IF lo < hi
    THEN LET mid == (lo + hi) \div 2
         IN  IF a[mid + 1] < x
             THEN bisect_left_from(a, x, mid + 1, hi)
             ELSE bisect_left_from(a, x, lo, mid)
    ELSE lo

bisect_left(a, x) == bisect_left_from(a, x, 0, Len(a))

\* Mutant: the right bound excludes the elements equal to x.
bisect_right_exclusive(a, x) == bisect_left(a, x)

RECURSIVE bisect_right_from(_, _, _, _)
bisect_right_from(a, x, lo, hi) ==
    IF lo < hi
    THEN LET mid == (lo + hi) \div 2
         IN  IF x < a[mid + 1]
             THEN bisect_right_from(a, x, lo, mid)
             ELSE bisect_right_from(a, x, mid + 1, hi)
    ELSE lo

bisect_right(a, x) == bisect_right_from(a, x, 0, Len(a))

-----------------------------------------------------------------------------
(* app/core/engine.py: Q-override strategies *)

\* sorted(range(len(transactions)), key=lambda i: (transactions[i]["epoch"], i)),
\* as 1-based positions.
OrderedIndices(txs) ==
    sorted([i \in 1..Len(txs) |-> i], [i \in 1..Len(txs) |-> <<txs[i].epoch, i>>])

OrderedTimes(txs, ordered_indices) ==
    [k \in 1..Len(ordered_indices) |-> txs[ordered_indices[k]].epoch]

NoOverrides(n) == [i \in 1..n |-> None]

\* Mutant: the start is pushed without its sign, so the earliest start wins.
HeapEntryEarliestStart(q_period) ==
    <<q_period.start_epoch, q_period.index, q_period.end_epoch, q_period.value>>

\* The heap entry pushed for a q period.
HeapEntry(q_period) ==
    <<-q_period.start_epoch, q_period.index, q_period.end_epoch, q_period.value>>

\* active_q[0]: the least entry of the heap.
HeapTop(active_q) ==
    CHOOSE e \in active_q : \A f \in active_q : f = e \/ LexLess(e, f)

\* while q_pointer < len(q_sorted) and q_sorted[q_pointer]["start_epoch"] <= ts: push
RECURSIVE HeapPushStarted(_, _, _, _)
HeapPushStarted(q_sorted, q_pointer, active_q, ts) ==
    IF q_pointer <= Len(q_sorted) /\ q_sorted[q_pointer].start_epoch <= ts
    THEN HeapPushStarted(q_sorted, q_pointer + 1,
                         active_q \cup {HeapEntry(q_sorted[q_pointer])}, ts)
    ELSE [q_pointer |-> q_pointer, active_q |-> active_q]

\* while active_q and active_q[0][2] < ts: heappop
RECURSIVE HeapPopExpired(_, _)
HeapPopExpired(active_q, ts) ==
    IF active_q # {} /\ HeapTop(active_q)[3] < ts
    THEN HeapPopExpired(active_q \ {HeapTop(active_q)}, ts)
    ELSE active_q

RECURSIVE HeapSweep(_, _, _, _, _, _)
HeapSweep(ordered_times, q_sorted, position, q_pointer, active_q, overrides) ==
    IF position > Len(ordered_times)
    THEN overrides
    ELSE LET ts == ordered_times[position]
             pushed == HeapPushStarted(q_sorted, q_pointer, active_q, ts)
             live == HeapPopExpired(pushed.active_q, ts)
             override == IF live # {} THEN Some(HeapTop(live)[4]) ELSE None
         IN  HeapSweep(ordered_times, q_sorted, position + 1, pushed.q_pointer,
                       live, Append(overrides, override))

_q_overrides_heap(ordered_times, q_list) ==
    IF Len(ordered_times) = 0 \/ Len(q_list) = 0
    THEN NoOverrides(Len(ordered_times))
    ELSE LET q_sorted == sorted(q_list,
                 [i \in 1..Len(q_list) |-> <<q_list[i].start_epoch, q_list[i].index>>])
         IN  HeapSweep(ordered_times, q_sorted, 1, 1, {}, <<>>)

\* find(next_index) with path halving: the root and the parent array it leaves.
RECURSIVE find(_, _)
find(parent, next_index) ==
    IF parent[next_index] # next_index
    THEN LET halved == [parent EXCEPT ![next_index] = parent[parent[next_index]]]
         IN  find(halved, halved[next_index])
    ELSE [root |-> next_index, parent |-> parent]

\* while position <= right: assign, count, link to find(position + 1)
RECURSIVE DsuAssign(_, _, _, _)
DsuAssign(st, position, right, value) ==
    IF position <= right
    THEN LET found == find(st.parent, position + 1)
             linked == [found.parent EXCEPT ![position] = found.root]
         IN  DsuAssign([st EXCEPT !.overrides[position] = Some(value),
                                  !.assigned_count = @ + 1,
                                  !.parent = linked],
                       linked[position], right, value)
    ELSE st

\* The state of _q_overrides_dsu before its loop: positions are 0-based.
DsuInit(size) ==
    [parent |-> [i \in 0..size |-> i],
     overrides |-> [i \in 0..(size - 1) |-> None],
     bounds_cache |-> <<>>,
     assigned_count |-> 0,
     stopped |-> FALSE]

\* Mutant: the assignment starts at left instead of find(left), so a later
\* interval overwrites positions that already hold an override.
DsuStepOverwrites(st, ordered_times, q_period) ==
    IF st.stopped \/ st.assigned_count >= Len(ordered_times)
    THEN [st EXCEPT !.stopped = TRUE]
    ELSE LET cache_key == <<q_period.start_epoch, q_period.end_epoch>>
             hit == cache_key \in DOMAIN st.bounds_cache
             left == IF hit THEN st.bounds_cache[cache_key][1]
                     ELSE bisect_left(ordered_times, q_period.start_epoch)
             right == IF hit THEN st.bounds_cache[cache_key][2]
                      ELSE bisect_right(ordered_times, q_period.end_epoch) - 1
             cached == IF hit THEN st.bounds_cache
                       ELSE (cache_key :> <<left, right>>) @@ st.bounds_cache
             st1 == [st EXCEPT !.bounds_cache = cached]
         IN  IF left > right
             THEN st1
             ELSE DsuAssign(st1, left, right, q_period.value)

\* One iteration of `for q_period in q_priority_sorted`.
DsuStep(st, ordered_times, q_period) ==
    IF st.stopped \/ st.assigned_count >= Len(ordered_times)
    THEN [st EXCEPT !.stopped = TRUE]
    ELSE LET cache_key == <<q_period.start_epoch, q_period.end_epoch>>
             hit == cache_key \in DOMAIN st.bounds_cache
             left == IF hit THEN st.bounds_cache[cache_key][1]
                     ELSE bisect_left(ordered_times, q_period.start_epoch)
             right == IF hit THEN st.bounds_cache[cache_key][2]
                      ELSE bisect_right(ordered_times, q_period.end_epoch) - 1
             cached == IF hit THEN st.bounds_cache
                       ELSE (cache_key :> <<left, right>>) @@ st.bounds_cache
             st1 == [st EXCEPT !.bounds_cache = cached]
         IN  IF left > right
             THEN st1
             ELSE LET found == find(st1.parent, left)
                  IN  DsuAssign([st1 EXCEPT !.parent = found.parent],
                                found.root, right, q_period.value)

\* Mutant: the priority order forgets the index, so the input order is kept
\* among equal keys only by the sort's stability and starts are ascending.
DsuPrioritySortedAscending(q_list) ==
    sorted(q_list, [i \in 1..Len(q_list) |-> <<q_list[i].start_epoch, q_list[i].index>>])

DsuPrioritySorted(q_list) ==
    sorted(q_list, [i \in 1..Len(q_list) |-> <<-q_list[i].start_epoch, q_list[i].index>>])

\* The state after the first n periods of q_priority_sorted.
RECURSIVE DsuAfter(_, _, _)
DsuAfter(ordered_times, q_priority_sorted, n) ==
    IF n = 0
    THEN DsuInit(Len(ordered_times))
    ELSE DsuStep(DsuAfter(ordered_times, q_priority_sorted, n - 1),
                 ordered_times, q_priority_sorted[n])

_q_overrides_dsu(ordered_times, q_list) ==
    IF Len(ordered_times) = 0 \/ Len(q_list) = 0
    THEN NoOverrides(Len(ordered_times))
    ELSE LET final == DsuAfter(ordered_times, DsuPrioritySorted(q_list), Len(q_list))
         IN  [i \in 1..Len(ordered_times) |-> final.overrides[i - 1]]

-----------------------------------------------------------------------------
(* app/core/engine.py: strategy selection and the temporal engine *)

HeapOnlyBelow == 2048
SampleLimit == 4096

\* _choose_q_strategy: the set of strategies the call may return.  Below
\* 2048 q periods it is "heap"; at a duplicate ratio of at least 0.25 it is
\* "dsu"; otherwise it compares two float cost estimates (log2), which are
\* not computed here: either answer is allowed.
_choose_q_strategy(ordered_times, q_list) ==
    LET q_count == Len(q_list)
        tx_count == Len(ordered_times)
        sample_size == IF q_count < SampleLimit THEN q_count ELSE SampleLimit
        unique_bounds == {<<q_list[i].start_epoch, q_list[i].end_epoch>> : i \in 1..sample_size}
    IN  IF q_count = 0 \/ tx_count = 0 THEN {"heap"}
        ELSE IF q_count < HeapOnlyBelow THEN {"heap"}
        ELSE IF 4 * (sample_size - Cardinality(unique_bounds)) >= sample_size THEN {"dsu"}
        ELSE {"heap", "dsu"}

QOverridesBy(q_strategy, ordered_times, q_list) ==
    IF q_strategy = "dsu"
    THEN _q_overrides_dsu(ordered_times, q_list)
    ELSE _q_overrides_heap(ordered_times, q_list)

\* sorted((p["start_epoch"], p["value"]) for p in p_periods)
p_start_events(p_list) ==
    LET events == [i \in 1..Len(p_list) |-> <<p_list[i].start_epoch, p_list[i].value>>]
    IN  sorted(events, events)

\* Mutant: the end event of a p period is keyed on its end_epoch, so the
\* period no longer counts at its last second.
p_end_events_at_end(p_list) ==
    LET events == [i \in 1..Len(p_list) |-> <<p_list[i].end_epoch, p_list[i].value>>]
    IN  sorted(events, events)

\* sorted((p["end_epoch"] + 1, p["value"]) for p in p_periods)
p_end_events(p_list) ==
    LET events == [i \in 1..Len(p_list) |-> <<p_list[i].end_epoch + 1, p_list[i].value>>]
    IN  sorted(events, events)

\* while pointer < len(events) and events[pointer][0] <= ts:
\*     running_extra += sign * events[pointer][1]; pointer += 1
RECURSIVE PAdvance(_, _, _, _, _)
PAdvance(events, pointer, ts, running_extra, sign) ==
    IF pointer <= Len(events) /\ events[pointer][1] <= ts
    THEN PAdvance(events, pointer + 1, ts, running_extra + sign * events[pointer][2], sign)
    ELSE [pointer |-> pointer, running_extra |-> running_extra]

\* Mutant: the base is the adjusted_remanent of an earlier run when there
\* is one, so a second run adds the extras again.
RECURSIVE TemporalSweepCompounds(_, _, _, _, _, _, _, _, _)
TemporalSweepCompounds(txs, ordered_indices, q_overrides_sorted, starts, ends, sorted_position, p_start_pointer, p_end_pointer, running_extra) ==
    IF sorted_position > Len(ordered_indices)
    THEN txs
    ELSE LET tx_index == ordered_indices[sorted_position]
             ts == txs[tx_index].epoch
             started == PAdvance(starts, p_start_pointer, ts, running_extra, 1)
             ended == PAdvance(ends, p_end_pointer, ts, started.running_extra, -1)
             base_override == q_overrides_sorted[sorted_position]
             base_remanent == IF ~IsNone(base_override)
                              THEN Val(base_override)
                              ELSE IF ~IsNone(txs[tx_index].adjusted_remanent)
                              THEN Val(txs[tx_index].adjusted_remanent)
                              ELSE txs[tx_index].remanent
             adjusted == money(base_remanent + ended.running_extra)
         IN  TemporalSweepCompounds([txs EXCEPT ![tx_index].adjusted_remanent = Some(adjusted)],
                           ordered_indices, q_overrides_sorted, starts, ends,
                           sorted_position + 1, started.pointer, ended.pointer,
                           ended.running_extra)

\* for sorted_position, tx_index in enumerate(ordered_indices): ...
RECURSIVE TemporalSweep(_, _, _, _, _, _, _, _, _)
TemporalSweep(txs, ordered_indices, q_overrides_sorted, starts, ends, sorted_position, p_start_pointer, p_end_pointer, running_extra) ==
    IF sorted_position > Len(ordered_indices)
    THEN txs
    ELSE LET tx_index == ordered_indices[sorted_position]
             ts == txs[tx_index].epoch
             started == PAdvance(starts, p_start_pointer, ts, running_extra, 1)
             ended == PAdvance(ends, p_end_pointer, ts, started.running_extra, -1)
             base_override == q_overrides_sorted[sorted_position]
             base_remanent == IF ~IsNone(base_override)
                              THEN Val(base_override)
                              ELSE txs[tx_index].remanent
             adjusted == money(base_remanent + ended.running_extra)
         IN  TemporalSweep([txs EXCEPT ![tx_index].adjusted_remanent = Some(adjusted)],
                           ordered_indices, q_overrides_sorted, starts, ends,
                           sorted_position + 1, started.pointer, ended.pointer,
                           ended.running_extra)

\* _apply_temporal_rules with the strategy _choose_q_strategy returned.
_apply_temporal_rules(txs, q_list, p_list, ordered_indices, q_strategy) ==
    IF Len(txs) = 0
    THEN <<>>
    ELSE LET ordered_times == OrderedTimes(txs, ordered_indices)
             q_overrides_sorted == QOverridesBy(q_strategy, ordered_times, q_list)
         IN  TemporalSweep(txs, ordered_indices, q_overrides_sorted,
                           p_start_events(p_list), p_end_events(p_list), 1, 1, 1, 0)

-----------------------------------------------------------------------------
(* app/core/engine.py: K membership and K aggregation *)

\* Mutant: only overlapping intervals are coalesced, touching ones are not.
RECURSIVE MergeSweepOverlapOnly(_, _, _, _, _)
MergeSweepOverlapOnly(sorted_periods, i, current_start, current_end, merged) ==
    IF i > Len(sorted_periods)
    THEN Append(merged, <<current_start, current_end>>)
    ELSE LET start == sorted_periods[i][1]
             end == sorted_periods[i][2]
         IN  IF start <= current_end
             THEN MergeSweepOverlapOnly(sorted_periods, i + 1, current_start,
                             IF end > current_end THEN end ELSE current_end, merged)
             ELSE MergeSweepOverlapOnly(sorted_periods, i + 1, start, end,
                             Append(merged, <<current_start, current_end>>))

\* for start, end in sorted_periods[1:]: coalesce or emit
RECURSIVE MergeSweep(_, _, _, _, _)
MergeSweep(sorted_periods, i, current_start, current_end, merged) ==
    IF i > Len(sorted_periods)
    THEN Append(merged, <<current_start, current_end>>)
    ELSE LET start == sorted_periods[i][1]
             end == sorted_periods[i][2]
         IN  IF start <= current_end + 1
             THEN MergeSweep(sorted_periods, i + 1, current_start,
                             IF end > current_end THEN end ELSE current_end, merged)
             ELSE MergeSweep(sorted_periods, i + 1, start, end,
                             Append(merged, <<current_start, current_end>>))

_merge_k_periods(k_list) ==
    IF Len(k_list) = 0
    THEN <<>>
    ELSE LET intervals == [i \in 1..Len(k_list) |-> <<k_list[i].start_epoch, k_list[i].end_epoch>>]
             sorted_periods == sorted(intervals, intervals)
         IN  MergeSweep(sorted_periods, 2, sorted_periods[1][1], sorted_periods[1][2], <<>>)

\* Mutant: an interval that ends exactly at ts is skipped too.
RECURSIVE SkipEndedInclusive(_, _, _)
SkipEndedInclusive(merged_k, interval_pointer, ts) ==
    IF interval_pointer <= Len(merged_k) /\ merged_k[interval_pointer][2] <= ts
    THEN SkipEndedInclusive(merged_k, interval_pointer + 1, ts)
    ELSE interval_pointer

\* while interval_pointer < len(merged_k) and merged_k[interval_pointer][1] < ts
RECURSIVE SkipEnded(_, _, _)
SkipEnded(merged_k, interval_pointer, ts) ==
    IF interval_pointer <= Len(merged_k) /\ merged_k[interval_pointer][2] < ts
    THEN SkipEnded(merged_k, interval_pointer + 1, ts)
    ELSE interval_pointer

\* for tx_index in ordered_indices: ...
RECURSIVE MembershipSweep(_, _, _, _, _, _)
MembershipSweep(txs, ordered_indices, merged_k, k, interval_pointer, memberships) ==
    IF k > Len(ordered_indices)
    THEN memberships
    ELSE LET tx_index == ordered_indices[k]
             ts == txs[tx_index].epoch
             pointer == SkipEnded(merged_k, interval_pointer, ts)
             inside == IF pointer <= Len(merged_k)
                       THEN merged_k[pointer][1] <= ts /\ ts <= merged_k[pointer][2]
                       ELSE FALSE
         IN  MembershipSweep(txs, ordered_indices, merged_k, k + 1, pointer,
                             [memberships EXCEPT ![tx_index] = inside])

_membership_in_k(txs, k_list, ordered_indices) ==
    IF Len(txs) = 0 THEN <<>>
    ELSE IF Len(k_list) = 0 THEN [i \in 1..Len(txs) |-> TRUE]
    ELSE LET merged_k == _merge_k_periods(k_list)
         IN  IF Len(merged_k) = 0
             THEN [i \in 1..Len(txs) |-> FALSE]
             ELSE MembershipSweep(txs, ordered_indices, merged_k, 1, 1,
                                  [i \in 1..Len(txs) |-> FALSE])

\* tx.get("adjusted_remanent", tx["remanent"])
AdjustedOrRemanent(tx) ==
    IF IsNone(tx.adjusted_remanent) THEN tx.remanent ELSE Val(tx.adjusted_remanent)

\* prefix[0] = 0; prefix[i] = prefix[i - 1] + value of the i-th ordered transaction
RECURSIVE PrefixSums(_, _, _)
PrefixSums(ordered_transactions, i, prefix) ==
    IF i > Len(ordered_transactions)
    THEN prefix
    ELSE PrefixSums(ordered_transactions, i + 1,
                    Append(prefix, prefix[Len(prefix)] + AdjustedOrRemanent(ordered_transactions[i])))

aggregate_savings_by_k(txs, k_list, is_sorted) ==
    IF Len(k_list) = 0
    THEN <<>>
    ELSE LET ordered_transactions ==
                 IF is_sorted THEN txs
                 ELSE sorted(txs, [i \in 1..Len(txs) |-> <<txs[i].epoch>>])
             times == [i \in 1..Len(ordered_transactions) |-> ordered_transactions[i].epoch]
             prefix == PrefixSums(ordered_transactions, 1, <<0>>)
         IN  [n \in 1..Len(k_list) |->
                 LET period == k_list[n]
                     left == bisect_left(times, period.start_epoch)
                     right == bisect_right(times, period.end_epoch)
                 IN  [start |-> period.start,
                      end |-> period.end,
                      amount |-> money(prefix[right + 1] - prefix[left + 1])]]

-----------------------------------------------------------------------------
(* app/core/engine.py: output records.  The field ix is auxiliary: it is  *)
(* the 1-based position of the record in the request, which the program's *)
(* output does not carry; the properties use it to follow a record.       *)

\* transaction.get("date") or transaction.get("timestamp") or "" on a raw record
RawDate(transaction) ==
    LET chosen == PyOr(PyOr(transaction.date, transaction.timestamp), Some(EmptyTs))
    IN  Val(chosen)

\* transaction.get(field, 0.0) on a raw record
RawNumber(o) == IF IsNone(o) THEN 0 ELSE Val(o)

\* _transaction_output(tx, include_adjusted_remanent): a transaction that has
\* no adjusted_remanent key gets adjustedRemanent = None when it is included.
_transaction_output(tx, include_adjusted_remanent, ix) ==
    LET payload == [date |-> tx.date,
                    amount |-> money(tx.amount),
                    ceiling |-> money(tx.ceiling),
                    remanent |-> money(tx.remanent),
                    ix |-> ix]
    IN  IF include_adjusted_remanent
        THEN payload @@ [adjustedRemanent |->
                            IF IsNone(tx.adjusted_remanent) THEN None
                            ELSE Some(money(Val(tx.adjusted_remanent)))]
        ELSE payload

\* _invalid_output(tx, message, include_adjusted_remanent=False) on a canonical record
_invalid_output(tx, message, ix) ==
    [date |-> tx.date,
     amount |-> money(tx.amount),
     ceiling |-> money(tx.ceiling),
     remanent |-> money(tx.remanent),
     message |-> message,
     ix |-> ix]

\* _invalid_output(raw, message, include_adjusted_remanent=False) on a raw record
_invalid_output_raw(transaction, message, ix) ==
    [date |-> RawDate(transaction),
     amount |-> money(RawNumber(transaction.amount)),
     ceiling |-> money(RawNumber(transaction.ceiling)),
     remanent |-> money(RawNumber(transaction.remanent)),
     message |-> message,
     ix |-> ix]

\* _filter_invalid_output on a canonical record
_filter_invalid_output(tx, message, ix) ==
    [date |-> tx.date, amount |-> money(tx.amount), message |-> message, ix |-> ix]

\* _filter_invalid_output on a raw record
_filter_invalid_output_raw(transaction, message, ix) ==
    [date |-> RawDate(transaction),
     amount |-> money(RawNumber(transaction.amount)),
     message |-> message,
     ix |-> ix]

-----------------------------------------------------------------------------
(* app/core/engine.py: build_transactions (parse) *)

\* The body of `for expense in expenses`: the transaction appended, or the
\* error raised.
BuildOne(expense) ==
    LET timestamp_raw == PyOr(expense.timestamp, expense.date)
    IN
    IF IsNone(timestamp_raw) THEN Err("Each expense must include a timestamp.")
    ELSE
    LET parsed == parse_timestamp_to_epoch(Val(timestamp_raw))
    IN
    IF ~parsed.ok THEN Err(parsed.error)
    ELSE IF IsNone(expense.amount) THEN Err(to_float_missing("amount"))
    ELSE
    LET amount == Val(expense.amount)
    IN
    IF amount < 0 THEN Err("Expense amount cannot be negative.")
    ELSE IF amount >= AmountLimit
    THEN Err("Expense amount must be < 500000 as per constraints.")
    ELSE
    LET ceiling == next_multiple_of_100(amount)
        remanent == money(ceiling - amount)
    IN  [ok |-> TRUE,
         tx |-> [date |-> parsed.normalized,
                 timestamp |-> parsed.normalized,
                 epoch |-> parsed.epoch,
                 amount |-> money(amount),
                 ceiling |-> money(ceiling),
                 remanent |-> remanent,
                 adjusted_remanent |-> None]]

RECURSIVE BuildLoop(_, _, _)
BuildLoop(expenses, i, built) ==
    IF i > Len(expenses)
    THEN [ok |-> TRUE, transactions |-> built]
    ELSE LET one == BuildOne(expenses[i])
         IN  IF ~one.ok THEN one
             ELSE BuildLoop(expenses, i + 1, Append(built, one.tx))

build_transactions(expenses) ==
    LET looped == BuildLoop(expenses, 1, <<>>)
    IN  IF ~looped.ok THEN looped
        ELSE LET txs == looped.transactions
             IN  [ok |-> TRUE,
                  transactions |-> [i \in 1..Len(txs) |-> _transaction_output(txs[i], TRUE, i)],
                  transactionsTotalAmount |-> money(SumSeq([i \in 1..Len(txs) |-> txs[i].amount])),
                  transactionsTotalCeiling |-> money(SumSeq([i \in 1..Len(txs) |-> txs[i].ceiling])),
                  transactionsTotalRemanent |-> money(SumSeq([i \in 1..Len(txs) |-> txs[i].remanent]))]

-----------------------------------------------------------------------------
(* app/core/engine.py: validate_transactions *)

Tolerance == Cent               \* 0.01
RemanentLimit == 500000 * Scale

\* Mutant: the remanent is not compared with ceiling - amount.
RECURSIVE ValidateStructureSkipsRemanent(_, _, _)
ValidateStructureSkipsRemanent(txs, i, st) ==
    IF i > Len(txs)
    THEN st
    ELSE
    LET canon == _canonical_transaction(txs[i], TRUE, TRUE)
    IN
    IF ~canon.ok
    THEN ValidateStructureSkipsRemanent(txs, i + 1,
            [st EXCEPT !.invalid = Append(@, _invalid_output_raw(txs[i], canon.error, i))])
    ELSE
    LET tx == canon.tx
        expected_ceiling == next_multiple_of_100(tx.amount)
        expected_remanent == money(expected_ceiling - tx.amount)
        Abs(x) == IF x < 0 THEN -x ELSE x
    IN
    IF tx.date \in st.seen_timestamps
    THEN ValidateStructureSkipsRemanent(txs, i + 1,
            [st EXCEPT !.duplicates =
                Append(@, _invalid_output(tx, "Duplicate transaction timestamp.", i))])
    ELSE
    LET seen == [st EXCEPT !.seen_timestamps = @ \cup {tx.date}]
    IN
    IF Abs(tx.ceiling - expected_ceiling) > Tolerance
    THEN ValidateStructureSkipsRemanent(txs, i + 1,
            [seen EXCEPT !.invalid = Append(@, _invalid_output(tx,
                "Invalid ceiling value for the amount. Expected next multiple of 100.", i))])
    ELSE IF tx.remanent > RemanentLimit
    THEN ValidateStructureSkipsRemanent(txs, i + 1,
            [seen EXCEPT !.invalid = Append(@, _invalid_output(tx,
                "Remanent exceeds challenge constraints (< 500000 required).", i))])
    ELSE ValidateStructureSkipsRemanent(txs, i + 1,
            [seen EXCEPT !.valid_candidates = Append(@, [tx |-> tx, ix |-> i])])

\* First loop: canonicalize (strict), duplicates, ceiling and remanent checks.
RECURSIVE ValidateStructure(_, _, _)
ValidateStructure(txs, i, st) ==
    IF i > Len(txs)
    THEN st
    ELSE
    LET canon == _canonical_transaction(txs[i], TRUE, TRUE)
    IN
    IF ~canon.ok
    THEN ValidateStructure(txs, i + 1,
            [st EXCEPT !.invalid = Append(@, _invalid_output_raw(txs[i], canon.error, i))])
    ELSE
    LET tx == canon.tx
        expected_ceiling == next_multiple_of_100(tx.amount)
        expected_remanent == money(expected_ceiling - tx.amount)
        Abs(x) == IF x < 0 THEN -x ELSE x
    IN
    IF tx.date \in st.seen_timestamps
    THEN ValidateStructure(txs, i + 1,
            [st EXCEPT !.duplicates =
                Append(@, _invalid_output(tx, "Duplicate transaction timestamp.", i))])
    ELSE
    LET seen == [st EXCEPT !.seen_timestamps = @ \cup {tx.date}]
    IN
    IF Abs(tx.ceiling - expected_ceiling) > Tolerance
    THEN ValidateStructure(txs, i + 1,
            [seen EXCEPT !.invalid = Append(@, _invalid_output(tx,
                "Invalid ceiling value for the amount. Expected next multiple of 100.", i))])
    ELSE IF Abs(tx.remanent - expected_remanent) > Tolerance
    THEN ValidateStructure(txs, i + 1,
            [seen EXCEPT !.invalid = Append(@, _invalid_output(tx,
                "Invalid remanent value. Expected ceiling - amount.", i))])
    ELSE IF tx.remanent > RemanentLimit
    THEN ValidateStructure(txs, i + 1,
            [seen EXCEPT !.invalid = Append(@, _invalid_output(tx,
                "Remanent exceeds challenge constraints (< 500000 required).", i))])
    ELSE ValidateStructure(txs, i + 1,
            [seen EXCEPT !.valid_candidates = Append(@, [tx |-> tx, ix |-> i])])

\* Mutant: a record rejected for the cap still adds to the running total.
RECURSIVE ValidateCapCountsRejected(_, _, _, _)
ValidateCapCountsRejected(valid_candidates, i, limit, st) ==
    IF i > Len(valid_candidates)
    THEN st
    ELSE
    LET tx == valid_candidates[i].tx
        ix == valid_candidates[i].ix
    IN
    IF st.running_investment + tx.remanent > limit
    THEN ValidateCapCountsRejected(valid_candidates, i + 1, limit,
            [st EXCEPT !.running_investment = @ + tx.remanent,
                       !.invalid = Append(@, _invalid_output(tx,
                "Cumulative remanent exceeds maximum allowed investment.", ix))])
    ELSE ValidateCapCountsRejected(valid_candidates, i + 1, limit,
            [st EXCEPT !.running_investment = @ + tx.remanent,
                       !.valid = Append(@, [tx |-> tx, ix |-> ix])])

\* Mutant: a record rejected for the cap is dropped instead of reported.
RECURSIVE ValidateCapDropsRejected(_, _, _, _)
ValidateCapDropsRejected(valid_candidates, i, limit, st) ==
    IF i > Len(valid_candidates)
    THEN st
    ELSE
    LET tx == valid_candidates[i].tx
        ix == valid_candidates[i].ix
    IN
    IF st.running_investment + tx.remanent > limit
    THEN ValidateCapDropsRejected(valid_candidates, i + 1, limit, st)
    ELSE ValidateCapDropsRejected(valid_candidates, i + 1, limit,
            [st EXCEPT !.running_investment = @ + tx.remanent,
                       !.valid = Append(@, [tx |-> tx, ix |-> ix])])

\* Second loop: the cumulative cap.  Every term is a multiple of 0.01, so
\* the 1e-9 slack of the comparison never decides it.
RECURSIVE ValidateCap(_, _, _, _)
ValidateCap(valid_candidates, i, limit, st) ==
    IF i > Len(valid_candidates)
    THEN st
    ELSE
    LET tx == valid_candidates[i].tx
        ix == valid_candidates[i].ix
    IN
    IF st.running_investment + tx.remanent > limit
    THEN ValidateCap(valid_candidates, i + 1, limit,
            [st EXCEPT !.invalid = Append(@, _invalid_output(tx,
                "Cumulative remanent exceeds maximum allowed investment.", ix))])
    ELSE ValidateCap(valid_candidates, i + 1, limit,
            [st EXCEPT !.running_investment = @ + tx.remanent,
                       !.valid = Append(@, [tx |-> tx, ix |-> ix])])

validate_transactions(wage_in, txs, max_investment_in) ==
    IF wage_in < 0 THEN Err("Wage cannot be negative.")
    ELSE
    LET limit == money(IF ~IsNone(max_investment_in) THEN Val(max_investment_in) ELSE wage_in * 12)
    IN
    IF limit < 0 THEN Err("Maximum investment cannot be negative.")
    ELSE
    LET structure == ValidateStructure(txs, 1,
                        [valid_candidates |-> <<>>, invalid |-> <<>>,
                         duplicates |-> <<>>, seen_timestamps |-> {}])
        capped == ValidateCap(structure.valid_candidates, 1, limit,
                        [running_investment |-> 0, valid |-> <<>>,
                         invalid |-> structure.invalid])
    IN  [ok |-> TRUE,
         valid |-> [i \in 1..Len(capped.valid) |->
                        _transaction_output(capped.valid[i].tx, FALSE, capped.valid[i].ix)],
         invalid |-> capped.invalid,
         duplicates |-> structure.duplicates]

-----------------------------------------------------------------------------
(* app/core/engine.py: filter_transactions *)

\* Mutant: the pass stops at the first record it rejects.
RECURSIVE FilterCanonicalizeStopsAtRejection(_, _, _)
FilterCanonicalizeStopsAtRejection(txs, i, st) ==
    IF i > Len(txs)
    THEN st
    ELSE
    LET canon == _canonical_transaction(txs[i], TRUE, FALSE)
    IN
    IF ~canon.ok
    THEN LET message == IF canon.error = "Amount cannot be negative."
                        THEN "Negative amounts are not allowed"
                        ELSE canon.error
         IN  [st EXCEPT !.invalid = Append(@, _filter_invalid_output_raw(txs[i], message, i))]
    ELSE IF canon.tx.date \in st.seen_timestamps
    THEN [st EXCEPT !.invalid = Append(@, _filter_invalid_output(canon.tx, "Duplicate transaction", i))]
    ELSE FilterCanonicalizeStopsAtRejection(txs, i + 1,
            [st EXCEPT !.seen_timestamps = @ \cup {canon.tx.date},
                       !.canonical_transactions = Append(@, canon.tx),
                       !.ixs = Append(@, i)])

\* The canonicalization pass of filter_transactions.
RECURSIVE FilterCanonicalize(_, _, _)
FilterCanonicalize(txs, i, st) ==
    IF i > Len(txs)
    THEN st
    ELSE
    LET canon == _canonical_transaction(txs[i], TRUE, FALSE)
    IN
    IF ~canon.ok
    THEN LET message == IF canon.error = "Amount cannot be negative."
                        THEN "Negative amounts are not allowed"
                        ELSE canon.error
         IN  FilterCanonicalize(txs, i + 1,
                [st EXCEPT !.invalid = Append(@, _filter_invalid_output_raw(txs[i], message, i))])
    ELSE IF canon.tx.date \in st.seen_timestamps
    THEN FilterCanonicalize(txs, i + 1,
            [st EXCEPT !.invalid = Append(@, _filter_invalid_output(canon.tx, "Duplicate transaction", i))])
    ELSE FilterCanonicalize(txs, i + 1,
            [st EXCEPT !.seen_timestamps = @ \cup {canon.tx.date},
                       !.canonical_transactions = Append(@, canon.tx),
                       !.ixs = Append(@, i)])

FilterCanonical(txs) ==
    FilterCanonicalize(txs, 1, [canonical_transactions |-> <<>>, ixs |-> <<>>,
                                invalid |-> <<>>, seen_timestamps |-> {}])

\* Mutant: the adjusted remanent is tested before the K membership, so a
\* transaction outside K with nothing to save is dropped instead of reported.
RECURSIVE FilterEmitDropFirst(_, _, _, _, _)
FilterEmitDropFirst(adjusted, membership, ixs, i, st) ==
    IF i > Len(adjusted) \/ i > Len(membership)
    THEN st
    ELSE
    LET tx == adjusted[i]
        adjusted_remanent == money(IF IsNone(tx.adjusted_remanent) THEN tx.remanent
                                   ELSE Val(tx.adjusted_remanent))
    IN
    IF adjusted_remanent <= 0
    THEN FilterEmitDropFirst(adjusted, membership, ixs, i + 1, st)
    ELSE IF ~membership[i]
    THEN FilterEmitDropFirst(adjusted, membership, ixs, i + 1,
            [st EXCEPT !.invalid = Append(@,
                [date |-> tx.date, amount |-> money(tx.amount),
                 message |-> "Transaction is outside all k evaluation ranges.",
                 ix |-> ixs[i]])])
    ELSE FilterEmitDropFirst(adjusted, membership, ixs, i + 1,
            [st EXCEPT !.valid = Append(@, [date |-> tx.date,
                                            amount |-> money(tx.amount),
                                            ceiling |-> money(tx.ceiling),
                                            remanent |-> adjusted_remanent,
                                            inKPeriod |-> TRUE,
                                            ix |-> ixs[i]])])

\* for tx, in_k in zip(adjusted, membership): ...
RECURSIVE FilterEmit(_, _, _, _, _)
FilterEmit(adjusted, membership, ixs, i, st) ==
    IF i > Len(adjusted) \/ i > Len(membership)
    THEN st
    ELSE
    LET tx == adjusted[i]
        adjusted_remanent == money(AdjustedOrRemanent(tx))
    IN
    IF ~membership[i]
    THEN FilterEmit(adjusted, membership, ixs, i + 1,
            [st EXCEPT !.invalid = Append(@, _filter_invalid_output(tx,
                "Transaction is outside all k evaluation ranges.", ixs[i]))])
    ELSE IF adjusted_remanent <= 0
    THEN FilterEmit(adjusted, membership, ixs, i + 1, st)
    ELSE FilterEmit(adjusted, membership, ixs, i + 1,
            [st EXCEPT !.valid = Append(@, [date |-> tx.date,
                                            amount |-> money(tx.amount),
                                            ceiling |-> money(tx.ceiling),
                                            remanent |-> adjusted_remanent,
                                            inKPeriod |-> TRUE,
                                            ix |-> ixs[i]])])

\* The adjusted transactions and their K membership inside filter_transactions.
FilterAdjusted(txs, q_list, p_list, q_strategy) ==
    LET canonical == FilterCanonical(txs).canonical_transactions
    IN  _apply_temporal_rules(canonical, q_list, p_list, OrderedIndices(canonical), q_strategy)

FilterMembership(txs, q_list, p_list, k_list, q_strategy) ==
    LET ordered_indices == OrderedIndices(FilterCanonical(txs).canonical_transactions)
    IN  _membership_in_k(FilterAdjusted(txs, q_list, p_list, q_strategy), k_list, ordered_indices)

filter_transactions(txs, q_list, p_list, k_list, q_strategy) ==
    LET pass == FilterCanonical(txs)
        ordered_indices == OrderedIndices(pass.canonical_transactions)
        adjusted == _apply_temporal_rules(pass.canonical_transactions, q_list, p_list,
                                          ordered_indices, q_strategy)
        membership == _membership_in_k(adjusted, k_list, ordered_indices)
        emitted == FilterEmit(adjusted, membership, pass.ixs, 1,
                              [valid |-> <<>>, invalid |-> pass.invalid])
    IN  [valid |-> emitted.valid, invalid |-> emitted.invalid]

-----------------------------------------------------------------------------------------------------------------------------------------------------
(* Requests: the bounded sets the inputs are drawn from *)

SeqsUpTo(S, n) == UNION {[1..m -> S] : m \in 0..n}

Intervals == {iv \in Epochs \X Epochs : iv[1] <= iv[2]}

\* The period _build_periods builds from the index-th input (0-based).
BuiltPeriod(iv, index, v) ==
    [start |-> FullTs(iv[1]), end |-> FullTs(iv[2]),
     start_epoch |-> iv[1], end_epoch |-> iv[2], index |-> index, value |-> v]

BuiltKPeriod(iv, index) ==
    [start |-> FullTs(iv[1]), end |-> FullTs(iv[2]),
     start_epoch |-> iv[1], end_epoch |-> iv[2], index |-> index]

\* The fixed / extra value of a period is a function of its position in the
\* request, so that every period of a list carries its own value; the
\* first q period has fixed = 0.
QFixed == <<0, 40 * Scale, 10 * Scale, 70 * Scale>>
PExtra == <<25 * Scale, 7 * Scale, 5 * Scale, 30 * Scale>>
At(values, i) == values[((i - 1) % Len(values)) + 1]

QLists(n) == {[i \in 1..Len(s) |-> BuiltPeriod(s[i], i - 1, At(QFixed, i))] : s \in SeqsUpTo(Intervals, n)}
PLists(n) == {[i \in 1..Len(s) |-> BuiltPeriod(s[i], i - 1, At(PExtra, i))] : s \in SeqsUpTo(Intervals, n)}
KLists(n) == {[i \in 1..Len(s) |-> BuiltKPeriod(s[i], i - 1)] : s \in SeqsUpTo(Intervals, n)}

\* A raw record with a date and an amount only.
DatedAmount(e, a) ==
    [date |-> Some(FullTs(e)), timestamp |-> None, amount |-> Some(a),
     ceiling |-> None, remanent |-> None]

\* The amounts of the challenge example, by position: remanents 50, 25, 80, 20.
ExampleAmounts == <<250 * Scale, 375 * Scale, 620 * Scale, 480 * Scale>>

\* Requests whose i-th record has the i-th example amount, at any epochs
\* (repeated epochs included).
ExampleRaw == {[i \in 1..Len(es) |-> DatedAmount(es[i], At(ExampleAmounts, i))] : es \in SeqsUpTo(Epochs, MaxTx)}

IsAscending(txs) == \A i \in 1..Len(txs), j \in 1..Len(txs) : i < j => txs[i].epoch <= txs[j].epoch
HasDistinctEpochs(txs) == \A i \in 1..Len(txs), j \in 1..Len(txs) : i # j => txs[i].epoch # txs[j].epoch

\* The canonical transactions of a list of raw records that all canonicalize
\* (no duplicate removal: the temporal engine accepts repeated epochs).
CanonicalOf(txs) == [i \in 1..Len(txs) |-> _canonical_transaction(txs[i], TRUE, FALSE).tx]

Ordered(txs) == OrderedTimes(txs, OrderedIndices(txs))

-----------------------------------------------------------------------------
(* Specification SpecQ: the two Q-override strategies and the temporal     *)
(* engine on epoch-sorted transactions (repeated epochs included) and any  *)
(* built q list, without p.                                                *)

InitQ ==
    /\ pc = "ready"
    /\ raw \in ExampleRaw
    /\ transactions = CanonicalOf(raw)
    /\ IsAscending(transactions)
    /\ q_periods \in QLists(MaxQ)
    /\ p_periods = <<>>
    /\ k_periods = <<>>
    /\ wage = 0
    /\ max_investment = None
    /\ instrument = "nps"
    /\ age = 0
    /\ inflation = 0
    /\ result = <<>>

CallQOverridesHeap ==
    /\ pc = "ready"
    /\ pc' = "_q_overrides_heap"
    /\ result' = _q_overrides_heap(Ordered(transactions), q_periods)
    /\ UNCHANGED <<raw, q_periods, p_periods, k_periods, wage, max_investment, instrument, age, inflation, transactions>>

CallQOverridesDsu ==
    /\ pc = "ready"
    /\ pc' = "_q_overrides_dsu"
    /\ result' = _q_overrides_dsu(Ordered(transactions), q_periods)
    /\ UNCHANGED <<raw, q_periods, p_periods, k_periods, wage, max_investment, instrument, age, inflation, transactions>>

CallApplyTemporalRules ==
    /\ pc = "ready"
    /\ pc' = "_apply_temporal_rules"
    /\ \E q_strategy \in _choose_q_strategy(Ordered(transactions), q_periods) :
          transactions' = _apply_temporal_rules(transactions, q_periods, p_periods,
                                                OrderedIndices(transactions), q_strategy)
    /\ result' = <<>>
    /\ UNCHANGED <<raw, q_periods, p_periods, k_periods, wage, max_investment, instrument, age, inflation>>

NextQ == CallQOverridesHeap \/ CallQOverridesDsu \/ CallApplyTemporalRules

SpecQ == InitQ /\ [][NextQ]_vars

\* The q periods that contain an epoch, and the one the specification says
\* wins: latest start_epoch, then smallest index.
QContaining(q_list, epoch) ==
    {i \in 1..Len(q_list) : q_list[i].start_epoch <= epoch /\ epoch <= q_list[i].end_epoch}

QWinner(q_list, epoch) ==
    CHOOSE i \in QContaining(q_list, epoch) :
        \A j \in QContaining(q_list, epoch) :
            \/ j = i
            \/ q_list[j].start_epoch < q_list[i].start_epoch
            \/ (q_list[j].start_epoch = q_list[i].start_epoch /\ q_list[i].index < q_list[j].index)

QExpected(q_list, epoch) ==
    IF QContaining(q_list, epoch) = {} THEN None ELSE Some(q_list[QWinner(q_list, epoch)].value)

\* C1: the override of a transaction is the fixed value of the q period
\* containing its epoch with the latest start_epoch (ties: smallest index),
\* null exactly when no q period contains it; a non-null override, 0
\* included, replaces the remanent as the base of the adjusted remanent.
C1_OverrideIsLatestStart ==
    /\ pc = "_q_overrides_heap" =>
          /\ Len(result) = Len(transactions)
          /\ \A i \in 1..Len(result) :
                result[i] = QExpected(q_periods, Ordered(transactions)[i])
    /\ pc = "_apply_temporal_rules" =>
          \A i \in 1..Len(transactions) :
             LET expected == QExpected(q_periods, transactions[i].epoch)
             IN  transactions[i].adjusted_remanent =
                    IF IsNone(expected) THEN Some(transactions[i].remanent) ELSE expected

\* A transaction lies in two q periods and takes the fixed value of the
\* second, later-started one, and another transaction with a positive
\* remanent has been given the override 0.
C1_Witness ==
    /\ pc = "_apply_temporal_rules"
    /\ \E i \in 1..Len(transactions) :
          /\ Cardinality(QContaining(q_periods, transactions[i].epoch)) >= 2
          /\ transactions[i].adjusted_remanent = Some(At(QFixed, 2))
    /\ \E i \in 1..Len(transactions) :
          transactions[i].remanent > 0 /\ transactions[i].adjusted_remanent = Some(0)

\* C2: _q_overrides_heap and _q_overrides_dsu return the same override
\* vector on every input, so the adjusted remanents do not depend on the
\* strategy chosen.
C2_StrategiesAgree ==
    /\ pc = "_q_overrides_heap" =>
          result = _q_overrides_dsu(Ordered(transactions), q_periods)
    /\ pc = "_q_overrides_dsu" =>
          result = _q_overrides_heap(Ordered(transactions), q_periods)
    /\ pc = "_apply_temporal_rules" =>
          transactions = _apply_temporal_rules(CanonicalOf(raw), q_periods, p_periods,
                                               OrderedIndices(CanonicalOf(raw)), "dsu")

\* The DSU strategy has answered for two transactions at the same epoch
\* lying in two q periods with the same bounds.
C2_Witness ==
    /\ pc = "_q_overrides_dsu"
    /\ Len(transactions) = 2
    /\ transactions[1].epoch = transactions[2].epoch
    /\ Len(q_periods) = 2
    /\ q_periods[1].start_epoch = q_periods[2].start_epoch
    /\ q_periods[1].end_epoch = q_periods[2].end_epoch
    /\ result = <<Some(At(QFixed, 1)), Some(At(QFixed, 1))>>

-----------------------------------------------------------------------------
(* Specification SpecP: the temporal engine on transactions in any order   *)
(* (repeated epochs included), any built p list, and one q period that     *)
(* covers the first epoch only.                                            *)

QSample == <<BuiltPeriod(<<0, 0>>, 0, 40 * Scale)>>

InitP ==
    /\ pc = "ready"
    /\ raw \in ExampleRaw
    /\ transactions = CanonicalOf(raw)
    /\ q_periods = QSample
    /\ p_periods \in PLists(MaxP)
    /\ k_periods = <<>>
    /\ wage = 0
    /\ max_investment = None
    /\ instrument = "nps"
    /\ age = 0
    /\ inflation = 0
    /\ result = <<>>

NextP == CallApplyTemporalRules

SpecP == InitP /\ [][NextP]_vars

PContaining(p_list, epoch) ==
    {i \in 1..Len(p_list) : p_list[i].start_epoch <= epoch /\ epoch <= p_list[i].end_epoch}

ExtraSum(p_list, epoch) ==
    SumSeq([i \in 1..Len(p_list) |-> IF i \in PContaining(p_list, epoch) THEN p_list[i].value ELSE 0])

\* C3: after _apply_temporal_rules every adjusted_remanent is base +
\* extraSum: base is the q override if there is one and the remanent
\* otherwise, extraSum the sum of the extras of exactly the p periods with
\* start_epoch <= epoch <= end_epoch.
C3_AdjustedIsBasePlusExtras ==
    pc = "_apply_temporal_rules" =>
        /\ Len(transactions) = Len(raw)
        /\ \A i \in 1..Len(transactions) :
              LET tx == transactions[i]
                  override == QExpected(q_periods, tx.epoch)
                  base == IF IsNone(override) THEN tx.remanent ELSE Val(override)
              IN  tx.adjusted_remanent = Some(base + ExtraSum(p_periods, tx.epoch))

\* One transaction sits on the last second of a p period and on the first
\* of another and got both extras on top of its own remanent; another sits
\* one second after the end of a p period and did not get its extra.
C3_Witness ==
    /\ pc = "_apply_temporal_rules"
    /\ Len(p_periods) = 2
    /\ \E i \in 1..Len(transactions) :
          /\ transactions[i].epoch = p_periods[1].end_epoch
          /\ transactions[i].epoch = p_periods[2].start_epoch
          /\ QContaining(q_periods, transactions[i].epoch) = {}
          /\ transactions[i].adjusted_remanent =
                Some(transactions[i].remanent + At(PExtra, 1) + At(PExtra, 2))
    /\ \E j \in 1..Len(transactions) :
          /\ transactions[j].epoch = p_periods[1].end_epoch + 1
          /\ transactions[j].adjusted_remanent =
                Some(transactions[j].remanent + At(PExtra, 2))

-----------------------------------------------------------------------------
(* Specification SpecAgg: aggregate_savings_by_k on the adjusted            *)
(* transactions of a request with distinct dates (what calculate_returns   *)
(* hands it) and any built k list.  One p period adds an extra at epoch 1, *)
(* so that adjusted remanents differ from remanents.                       *)

PSample == <<BuiltPeriod(<<1, 1>>, 0, 25 * Scale)>>

InitAgg ==
    /\ pc = "ready"
    /\ raw \in ExampleRaw
    /\ HasDistinctEpochs(CanonicalOf(raw))
    /\ q_periods = <<>>
    /\ p_periods = PSample
    /\ transactions = _apply_temporal_rules(CanonicalOf(raw), q_periods, p_periods,
                                            OrderedIndices(CanonicalOf(raw)), "heap")
    /\ k_periods \in KLists(MaxK)
    /\ wage = 0
    /\ max_investment = None
    /\ instrument = "nps"
    /\ age = 0
    /\ inflation = 0
    /\ result = <<>>

\* calculate_returns: aggregate_savings_by_k(ordered_adjusted_transactions, k_periods, is_sorted=True)
CallAggregateSorted ==
    /\ pc = "ready"
    /\ pc' = "aggregate_savings_by_k"
    /\ LET ordered_indices == OrderedIndices(transactions)
           ordered_adjusted_transactions ==
               [i \in 1..Len(ordered_indices) |-> transactions[ordered_indices[i]]]
       IN  result' = aggregate_savings_by_k(ordered_adjusted_transactions, k_periods, TRUE)
    /\ UNCHANGED <<raw, q_periods, p_periods, k_periods, wage, max_investment, instrument, age, inflation, transactions>>

\* aggregate_savings_by_k(transactions, k_periods) on the unordered list
CallAggregateUnsorted ==
    /\ pc = "ready"
    /\ pc' = "aggregate_savings_by_k"
    /\ result' = aggregate_savings_by_k(transactions, k_periods, FALSE)
    /\ UNCHANGED <<raw, q_periods, p_periods, k_periods, wage, max_investment, instrument, age, inflation, transactions>>

NextAgg == CallAggregateSorted \/ CallAggregateUnsorted

SpecAgg == InitAgg /\ [][NextAgg]_vars

InPeriod(period, epoch) == period.start_epoch <= epoch /\ epoch <= period.end_epoch

WindowSum(txs, period) ==
    SumSeq([i \in 1..Len(txs) |->
               IF InPeriod(period, txs[i].epoch) THEN AdjustedOrRemanent(txs[i]) ELSE 0])

\* C4: aggregate_savings_by_k returns one entry per k period, in the order
\* of the k list and with that period's start and end strings, whose amount
\* is the sum of adjusted_remanent over exactly the transactions with
\* start_epoch <= epoch <= end_epoch.
C4_WindowAmounts ==
    pc = "aggregate_savings_by_k" =>
        /\ Len(result) = Len(k_periods)
        /\ \A n \in 1..Len(k_periods) :
              /\ result[n].start = k_periods[n].start
              /\ result[n].end = k_periods[n].end
              /\ result[n].amount = WindowSum(transactions, k_periods[n])

\* Two overlapping k periods, given later-start first, both count a
\* transaction carrying an extra, and one of them counts a second one.
C4_Witness ==
    /\ pc = "aggregate_savings_by_k"
    /\ Len(k_periods) = 2
    /\ k_periods[1].start_epoch > k_periods[2].start_epoch
    /\ \E i \in 1..Len(transactions) :
          /\ InPeriod(k_periods[1], transactions[i].epoch)
          /\ InPeriod(k_periods[2], transactions[i].epoch)
          /\ transactions[i].adjusted_remanent # Some(transactions[i].remanent)
    /\ result[1].amount > 0
    /\ result[2].amount > result[1].amount

-----------------------------------------------------------------------------
(* Specification SpecK: filter_transactions on any request of dated        *)
(* amounts (repeated dates included) and any built k list, without q, p.   *)

InitK ==
    /\ pc = "ready"
    /\ raw \in ExampleRaw
    /\ transactions = <<>>
    /\ q_periods = <<>>
    /\ p_periods = <<>>
    /\ k_periods \in KLists(MaxK)
    /\ wage = 0
    /\ max_investment = None
    /\ instrument = "nps"
    /\ age = 0
    /\ inflation = 0
    /\ result = <<>>

\* The strategies _choose_q_strategy may return inside filter_transactions.
FilterStrategies(txs, q_list) ==
    _choose_q_strategy(Ordered(FilterCanonical(txs).canonical_transactions), q_list)

CallFilterTransactions ==
    /\ pc = "ready"
    /\ pc' = "filter_transactions"
    /\ \E q_strategy \in FilterStrategies(raw, q_periods) :
          result' = filter_transactions(raw, q_periods, p_periods, k_periods, q_strategy)
    /\ UNCHANGED <<raw, q_periods, p_periods, k_periods, wage, max_investment, instrument, age, inflation, transactions>>

NextK == CallFilterTransactions

SpecK == InitK /\ [][NextK]_vars

InKUnion(k_list, epoch) == \E n \in 1..Len(k_list) : InPeriod(k_list[n], epoch)

OutsideK == "Transaction is outside all k evaluation ranges."

\* The entries of an output list that come from the ix-th record of the request.
EntriesOf(list, ix) == {n \in 1..Len(list) : list[n].ix = ix}

\* Every canonical transaction with a false membership is reported once as
\* outside K and is not in valid.
FalseMembersReported(pass, membership) ==
    \A i \in 1..Len(pass.canonical_transactions) :
        ~membership[i] =>
            /\ Cardinality({n \in EntriesOf(result.invalid, pass.ixs[i]) :
                               result.invalid[n].message = OutsideK}) = 1
            /\ EntriesOf(result.valid, pass.ixs[i]) = {}

\* C5 as stated: the membership is true exactly when the epoch lies in the
\* union of the k periods, for every k list, the empty list included.
C5_MembershipIsUnion_Original ==
    pc = "filter_transactions" =>
        \E pass \in {FilterCanonical(raw)} :
        \E membership \in {FilterMembership(raw, q_periods, p_periods, k_periods, "heap")} :
            /\ \A i \in 1..Len(pass.canonical_transactions) :
                  membership[i] <=> InKUnion(k_periods, pass.canonical_transactions[i].epoch)
            /\ FalseMembersReported(pass, membership)

\* C5 (amended): for a non-empty k list the membership is true exactly when
\* the epoch lies in the union of the k periods; for the empty k list it is
\* true for every transaction.  Every transaction whose membership is false
\* is reported in invalid as outside K and is not in valid.
C5_MembershipIsUnion ==
    pc = "filter_transactions" =>
        \E pass \in {FilterCanonical(raw)} :
        \E membership \in {FilterMembership(raw, q_periods, p_periods, k_periods, "heap")} :
            /\ Len(membership) = Len(pass.canonical_transactions)
            /\ \A i \in 1..Len(pass.canonical_transactions) :
                  membership[i] <=>
                      \/ Len(k_periods) = 0
                      \/ InKUnion(k_periods, pass.canonical_transactions[i].epoch)
            /\ FalseMembersReported(pass, membership)

\* Two k periods with a gap between them: the transaction in the gap is
\* reported as outside K, the one in the second period is valid.
C5_Witness ==
    /\ pc = "filter_transactions"
    /\ Len(k_periods) = 2
    /\ k_periods[2].end_epoch + 1 < k_periods[1].start_epoch
    /\ \E n \in 1..Len(result.invalid) :
          /\ result.invalid[n].message = OutsideK
          /\ result.invalid[n].date.t = k_periods[2].end_epoch + 1
    /\ \E n \in 1..Len(result.valid) :
          result.valid[n].date.t = k_periods[1].start_epoch

-----------------------------------------------------------------------------
(* Specification SpecFilter: filter_transactions on requests whose records *)
(* carry any date and an amount that is negative, a multiple of 100 or     *)
(* neither, under a few q, p and k lists.                                  *)

FilterAmounts == {250 * Scale, 300 * Scale, -(10 * Scale)}

\* A record with a negative amount whose date does not parse.
UndatedNegative ==
    [date |-> Some(BadTs), timestamp |-> None, amount |-> Some(-(10 * Scale)),
     ceiling |-> None, remanent |-> None]

\* Requests of three records that mix an accepted record, a repeat of its
\* date and a negative amount, in each order.
FilterMixed ==
    {<<DatedAmount(0, 250 * Scale), DatedAmount(0, 300 * Scale), DatedAmount(1, -(10 * Scale))>>,
     <<DatedAmount(0, 250 * Scale), DatedAmount(1, -(10 * Scale)), DatedAmount(0, 300 * Scale)>>,
     <<DatedAmount(1, -(10 * Scale)), DatedAmount(1, 250 * Scale), DatedAmount(1, 300 * Scale)>>}

FilterRaw ==
    SeqsUpTo({DatedAmount(e, a) : e \in Epochs, a \in FilterAmounts} \cup {UndatedNegative}, MaxTx)
    \cup FilterMixed

QSamples == {<<>>, <<BuiltPeriod(<<0, 0>>, 0, 0)>>}
PSamples == {<<>>, PSample}
KSamples == {<<>>, <<BuiltKPeriod(<<0, 0>>, 0)>>, <<BuiltKPeriod(<<1, MaxEpoch>>, 0)>>}

InitFilter ==
    /\ pc = "ready"
    /\ raw \in FilterRaw
    /\ transactions = <<>>
    /\ q_periods \in QSamples
    /\ p_periods \in PSamples
    /\ k_periods \in KSamples
    /\ wage = 0
    /\ max_investment = None
    /\ instrument = "nps"
    /\ age = 0
    /\ inflation = 0
    /\ result = <<>>

NextFilter == CallFilterTransactions

SpecFilter == InitFilter /\ [][NextFilter]_vars

\* The adjusted remanent the specification gives a canonical transaction.
AdjustedExpected(tx) ==
    LET override == QExpected(q_periods, tx.epoch)
        base == IF IsNone(override) THEN tx.remanent ELSE Val(override)
    IN  base + ExtraSum(p_periods, tx.epoch)

\* Membership as the code decides it: inside the union of the k periods, or
\* no k period at all.
InKExpected(tx) == Len(k_periods) = 0 \/ InKUnion(k_periods, tx.epoch)

\* C6: each record that canonicalizes and is not a duplicate ends in exactly
\* one of three outcomes, decided in this order: outside K -> one invalid
\* entry; else adjusted remanent <= 0 -> in neither list; else one valid
\* entry whose remanent is the adjusted remanent and whose inKPeriod is true.
C6_ThreeOutcomes ==
    pc = "filter_transactions" =>
        \E pass \in {FilterCanonical(raw)} :
        \A i \in 1..Len(pass.canonical_transactions) :
            LET tx == pass.canonical_transactions[i]
                in_invalid == EntriesOf(result.invalid, pass.ixs[i])
                in_valid == EntriesOf(result.valid, pass.ixs[i])
            IN  IF ~InKExpected(tx)
                THEN /\ Cardinality(in_invalid) = 1
                     /\ \A n \in in_invalid : result.invalid[n].message = OutsideK
                     /\ in_valid = {}
                ELSE IF AdjustedExpected(tx) <= 0
                THEN in_invalid = {} /\ in_valid = {}
                ELSE /\ in_invalid = {}
                     /\ Cardinality(in_valid) = 1
                     /\ \A n \in in_valid :
                           /\ result.valid[n].remanent = AdjustedExpected(tx)
                           /\ result.valid[n].inKPeriod = TRUE
                           /\ result.valid[n].date = tx.date

\* A record outside K whose adjusted remanent is 0 is reported invalid, and
\* a record inside K is valid with a remanent that is not its own remanent.
C6_Witness ==
    /\ pc = "filter_transactions"
    /\ \E pass \in {FilterCanonical(raw)} :
          /\ \E i \in 1..Len(pass.canonical_transactions) :
                /\ AdjustedExpected(pass.canonical_transactions[i]) = 0
                /\ \E n \in EntriesOf(result.invalid, pass.ixs[i]) :
                      result.invalid[n].message = OutsideK
          /\ \E i \in 1..Len(pass.canonical_transactions) :
                \E n \in EntriesOf(result.valid, pass.ixs[i]) :
                    result.valid[n].remanent # pass.canonical_transactions[i].remanent

-----------------------------------------------------------------------------
(* Specification SpecCanon: one raw record, with or without each of its    *)
(* fields, is canonicalized in either mode or parsed as an expense.        *)

\* Amounts with two and with three decimal places, on both sides of a
\* multiple of 100 and of the 500000 limit.
CanonAmounts ==
    {-(10 * Scale), 0, 250 * Scale, 300 * Scale, 300 * Scale + 4, 300 * Scale - 4,
     AmountLimit - 4, AmountLimit}

CanonDates == {None, Some(BadTs), Some(EmptyTs)} \cup {Some(FullTs(e)) : e \in Epochs}
                 \cup {Some(ShortTs(e)) : e \in Epochs}

CanonCeilings == {None, Some(200 * Scale), Some(300 * Scale), Some(1000 * Scale)}
CanonRemanents == {None, Some(-Scale), Some(0), Some(50 * Scale)}

CanonRaw ==
    {<<[date |-> d, timestamp |-> t, amount |-> a, ceiling |-> c, remanent |-> r]>> :
        d \in CanonDates, t \in {None, Some(FullTs(0))},
        a \in {None} \cup {Some(v) : v \in CanonAmounts},
        c \in CanonCeilings, r \in CanonRemanents}

InitCanon ==
    /\ pc = "ready"
    /\ raw \in CanonRaw
    /\ transactions = <<>>
    /\ q_periods = <<>>
    /\ p_periods = <<>>
    /\ k_periods = <<>>
    /\ wage = 0
    /\ max_investment = None
    /\ instrument = "nps"
    /\ age = 0
    /\ inflation = 0
    /\ result = <<>>

\* _canonical_transaction(raw, enforce_amount_limit=True, require_ceiling_and_remanent=False)
CallCanonicalSynthesize ==
    /\ pc = "ready"
    /\ pc' = "synthesize"
    /\ result' = _canonical_transaction(raw[1], TRUE, FALSE)
    /\ UNCHANGED <<raw, q_periods, p_periods, k_periods, wage, max_investment, instrument, age, inflation, transactions>>

\* _canonical_transaction(raw, enforce_amount_limit=True, require_ceiling_and_remanent=True)
CallCanonicalStrict ==
    /\ pc = "ready"
    /\ pc' = "strict"
    /\ result' = _canonical_transaction(raw[1], TRUE, TRUE)
    /\ UNCHANGED <<raw, q_periods, p_periods, k_periods, wage, max_investment, instrument, age, inflation, transactions>>

CallBuildTransactions ==
    /\ pc = "ready"
    /\ pc' = "build_transactions"
    /\ result' = build_transactions(raw)
    /\ UNCHANGED <<raw, q_periods, p_periods, k_periods, wage, max_investment, instrument, age, inflation, transactions>>

NextCanon == CallCanonicalSynthesize \/ CallCanonicalStrict \/ CallBuildTransactions

SpecCanon == InitCanon /\ [][NextCanon]_vars

\* 100 * ceil(amount / 100): the smallest multiple of 100 that is >= amount.
CeilHundred(amount) == HUNDRED * ((amount + HUNDRED - 1) \div HUNDRED)

\* C7: every canonical transaction returned in synthesize mode, whether or
\* not the raw record supplies a ceiling or a remanent, has
\* ceiling = 100*ceil(amount/100), remanent = ceiling - amount and
\* 0 <= amount < 500000.
C7_SynthesizedInvariants ==
    (pc = "synthesize" /\ result.ok) =>
        /\ result.tx.ceiling = CeilHundred(result.tx.amount)
        /\ result.tx.remanent = result.tx.ceiling - result.tx.amount
        /\ 0 <= result.tx.amount
        /\ result.tx.amount < AmountLimit

\* C8: every record emitted by build_transactions has, on its emitted
\* values, ceiling = the smallest multiple of 100 >= amount,
\* remanent = ceiling - amount with 0 <= remanent < 100, and
\* 0 <= amount < 500000.
C8_ParsedInvariants ==
    (pc = "build_transactions" /\ result.ok) =>
        \A i \in 1..Len(result.transactions) :
            LET tx == result.transactions[i]
            IN  /\ tx.ceiling = CeilHundred(tx.amount)
                /\ tx.remanent = tx.ceiling - tx.amount
                /\ 0 <= tx.remanent
                /\ tx.remanent < HUNDRED
                /\ 0 <= tx.amount
                /\ tx.amount < AmountLimit

-----------------------------------------------------------------------------
(* Specification SpecValidator: validate_transactions on requests of       *)
(* records that are well formed, mis-stated, negative or incomplete, at    *)
(* any dates (repeats included), under several wages and caps.             *)

ValidatorRecord(e, a, c, r) ==
    [date |-> Some(FullTs(e)), timestamp |-> None, amount |-> a, ceiling |-> c, remanent |-> r]

\* amount / ceiling / remanent: 250/300/50 and 99.99/100/0.01 are well
\* formed; 250/1000/50 mis-states the ceiling; 250/300.014/49.986 is off by
\* more than a cent; -10/0/0 is negative; 250/-/- lacks ceiling and
\* remanent.
ValidatorKinds ==
    {<<Some(250 * Scale), Some(300 * Scale), Some(50 * Scale)>>,
     <<Some(100 * Scale - Cent), Some(100 * Scale), Some(Cent)>>,
     <<Some(250 * Scale), Some(1000 * Scale), Some(50 * Scale)>>,
     <<Some(250 * Scale), Some(300 * Scale + 14), Some(50 * Scale - 14)>>,
     <<Some(-(10 * Scale)), Some(0), Some(0)>>,
     <<Some(250 * Scale), None, None>>}

ValidatorRaw ==
    SeqsUpTo({ValidatorRecord(e, kind[1], kind[2], kind[3]) : e \in Epochs, kind \in ValidatorKinds},
             MaxTx)

\* <<wage, maxInvestment>>: the default cap 12 * wage, caps of 0, 0.006, 50
\* and 75, and a negative wage and cap.
ValidatorBudgets ==
    {<<0, None>>, <<5 * Scale, None>>, <<-Scale, None>>,
     <<0, Some(0)>>, <<0, Some(6)>>, <<5 * Scale, Some(50 * Scale)>>,
     <<0, Some(75 * Scale)>>, <<0, Some(-Scale)>>}

InitValidator ==
    /\ pc = "ready"
    /\ raw \in ValidatorRaw
    /\ transactions = <<>>
    /\ q_periods = <<>>
    /\ p_periods = <<>>
    /\ k_periods = <<>>
    /\ \E budget \in ValidatorBudgets : wage = budget[1] /\ max_investment = budget[2]
    /\ instrument = "nps"
    /\ age = 0
    /\ inflation = 0
    /\ result = <<>>

CallValidateTransactions ==
    /\ pc = "ready"
    /\ pc' = "validate_transactions"
    /\ result' = validate_transactions(wage, raw, max_investment)
    /\ UNCHANGED <<raw, q_periods, p_periods, k_periods, wage, max_investment, instrument, age, inflation, transactions>>

NextValidator == CallValidateTransactions

SpecValidator == InitValidator /\ [][NextValidator]_vars

\* The cap of the request: maxInvestment when given, 12 * wage otherwise.
RequestedCap == IF IsNone(max_investment) THEN 12 * wage ELSE Val(max_investment)

\* C9: for every wage >= 0, maxInvestment and transaction list, the sum of
\* the remanents of the valid list is <= maxInvestment (12 * wage when no
\* maxInvestment is given).
C9_ValidSumWithinCap ==
    (pc = "validate_transactions" /\ result.ok) =>
        SumSeq([i \in 1..Len(result.valid) |-> result.valid[i].remanent]) <= RequestedCap

\* C10: validate_transactions partitions its input: every input record is
\* in exactly one of valid, invalid and duplicates, exactly once, and every
\* invalid and duplicate entry carries a non-empty message.
C10_Partition ==
    (pc = "validate_transactions" /\ result.ok) =>
        /\ Len(result.valid) + Len(result.invalid) + Len(result.duplicates) = Len(raw)
        /\ \A ix \in 1..Len(raw) :
              Cardinality(EntriesOf(result.valid, ix))
                + Cardinality(EntriesOf(result.invalid, ix))
                + Cardinality(EntriesOf(result.duplicates, ix)) = 1
        /\ \A n \in 1..Len(result.invalid) : result.invalid[n].message # ""
        /\ \A n \in 1..Len(result.duplicates) : result.duplicates[n].message # ""

\* Two well-formed records at different dates under a cap that admits only
\* the first: one is valid, the other is reported for the cap.
C10_Witness ==
    /\ pc = "validate_transactions"
    /\ result.ok
    /\ Len(raw) = 2
    /\ Len(result.valid) = 1
    /\ Len(result.invalid) = 1
    /\ result.invalid[1].message = "Cumulative remanent exceeds maximum allowed investment."

\* The normalized date of a raw record whose date parses, None otherwise.
NormalizedDateOf(transaction) ==
    LET parsed == parse_timestamp_to_epoch(RawDate(transaction))
    IN  IF parsed.ok THEN Some(parsed.normalized) ELSE None

\* The record at position ix repeats the normalized date of an earlier record.
RepeatsEarlierDate(txs, ix) ==
    /\ ~IsNone(NormalizedDateOf(txs[ix]))
    /\ \E j \in 1..(ix - 1) : NormalizedDateOf(txs[j]) = NormalizedDateOf(txs[ix])

\* C11: among the records of a batch that share a normalized date, the first
\* in input order is not a duplicate and every later one is reported as a
\* duplicate, whatever the other fields of the first one are.
C11_FirstOccurrenceWins ==
    (pc = "validate_transactions" /\ result.ok) =>
        \A ix \in 1..Len(raw) :
            RepeatsEarlierDate(raw, ix) <=> EntriesOf(result.duplicates, ix) # {}

\* The entries of an output list come in the order of their input records.
InInputOrder(list) ==
    \A m \in 1..Len(list), n \in 1..Len(list) : m < n => list[m].ix < list[n].ix

\* C12: each of valid, invalid and duplicates of validate_transactions
\* preserves input order.
C12_ValidatorKeepsInputOrder ==
    (pc = "validate_transactions" /\ result.ok) =>
        /\ InInputOrder(result.valid)
        /\ InInputOrder(result.invalid)
        /\ InInputOrder(result.duplicates)

\* C13: both valid and invalid of filter_transactions preserve input order.
C13_FilterKeepsInputOrder ==
    pc = "filter_transactions" =>
        /\ InInputOrder(result.valid)
        /\ InInputOrder(result.invalid)

\* The raw record carries a date that parses and a timestamp with another value.
HasDateAndOtherTimestamp(transaction) ==
    /\ ~IsNone(transaction.date)
    /\ ~IsNone(transaction.timestamp)
    /\ transaction.date # transaction.timestamp
    /\ parse_timestamp_to_epoch(Val(transaction.date)).ok

\* C14: in every pipeline that reads raw records, a record with both a date
\* and a different timestamp gets its normalized date and epoch from the date.
C14_DatePreferred ==
    HasDateAndOtherTimestamp(raw[1]) =>
        LET parsed == parse_timestamp_to_epoch(Val(raw[1].date))
        IN  /\ (pc \in {"synthesize", "strict"} /\ result.ok) =>
                  /\ result.tx.date = parsed.normalized
                  /\ result.tx.epoch = parsed.epoch
            /\ (pc = "build_transactions" /\ result.ok) =>
                  result.transactions[1].date = parsed.normalized

-----------------------------------------------------------------------------
(* app/core/engine.py: calculate_returns *)

NPS_RATE == 711        \* 0.0711, in units of 0.0001
INDEX_RATE == 1449     \* 0.1449, in units of 0.0001

\* Mutant: the record is canonicalized with the ceiling and remanent the
\* client supplied.
RECURSIVE PrepareReturnsKeepsSupplied(_, _, _)
PrepareReturnsKeepsSupplied(txs, i, st) ==
    IF i > Len(txs)
    THEN st
    ELSE
    LET canon == _canonical_transaction(txs[i], TRUE, FALSE)
    IN
    IF ~canon.ok
    THEN PrepareReturnsKeepsSupplied(txs, i + 1, [st EXCEPT !.invalid_count = @ + 1])
    ELSE IF canon.tx.date \in st.seen_timestamps
    THEN PrepareReturnsKeepsSupplied(txs, i + 1, [st EXCEPT !.duplicate_count = @ + 1])
    ELSE PrepareReturnsKeepsSupplied(txs, i + 1,
            [st EXCEPT !.seen_timestamps = @ \cup {canon.tx.date},
                       !.canonical_transactions = Append(@, canon.tx),
                       !.ixs = Append(@, i)])

\* Mutant: a record whose date repeats an accepted one is kept.
RECURSIVE PrepareReturnsKeepsRepeats(_, _, _)
PrepareReturnsKeepsRepeats(txs, i, st) ==
    IF i > Len(txs)
    THEN st
    ELSE
    LET normalized_input == [date |-> txs[i].date, timestamp |-> txs[i].timestamp,
                             amount |-> txs[i].amount, ceiling |-> None, remanent |-> None]
        canon == _canonical_transaction(normalized_input, TRUE, FALSE)
    IN
    IF ~canon.ok
    THEN PrepareReturnsKeepsRepeats(txs, i + 1, [st EXCEPT !.invalid_count = @ + 1])
    ELSE PrepareReturnsKeepsRepeats(txs, i + 1,
            [st EXCEPT !.seen_timestamps = @ \cup {canon.tx.date},
                       !.canonical_transactions = Append(@, canon.tx),
                       !.ixs = Append(@, i)])

\* The loop of _prepare_returns_transactions; ixs keeps the input position of
\* each canonical transaction.
RECURSIVE PrepareReturns(_, _, _)
PrepareReturns(txs, i, st) ==
    IF i > Len(txs)
    THEN st
    ELSE
    LET normalized_input == [date |-> txs[i].date, timestamp |-> txs[i].timestamp,
                             amount |-> txs[i].amount, ceiling |-> None, remanent |-> None]
        canon == _canonical_transaction(normalized_input, TRUE, FALSE)
    IN
    IF ~canon.ok
    THEN PrepareReturns(txs, i + 1, [st EXCEPT !.invalid_count = @ + 1])
    ELSE IF canon.tx.date \in st.seen_timestamps
    THEN PrepareReturns(txs, i + 1, [st EXCEPT !.duplicate_count = @ + 1])
    ELSE PrepareReturns(txs, i + 1,
            [st EXCEPT !.seen_timestamps = @ \cup {canon.tx.date},
                       !.canonical_transactions = Append(@, canon.tx),
                       !.ixs = Append(@, i)])

_prepare_returns_transactions(txs) ==
    PrepareReturns(txs, 1, [canonical_transactions |-> <<>>, ixs |-> <<>>,
                            seen_timestamps |-> {}, invalid_count |-> 0,
                            duplicate_count |-> 0])

\* _normalize_inflation_rate(inflation): the rate is inflation / divisor.
_normalize_inflation_rate(inflation_in) ==
    IF inflation_in < 0 THEN Err("Inflation cannot be negative.")
    ELSE [ok |-> TRUE,
          rate |-> [value |-> inflation_in,
                    divisor |-> IF inflation_in > Scale THEN 100 ELSE 1]]

years_to_investment_horizon(age_in) == IF age_in < 60 THEN 60 - age_in ELSE 5

\* compute_real_return: its three guards, and the profit as the term of its
\* four arguments (the decimal powers are not evaluated).
compute_real_return(invested_amount, annual_rate, inflation_rate, years) ==
    IF invested_amount < 0 THEN Err("Invested amount cannot be negative.")
    ELSE IF inflation_rate.value < 0 THEN Err("Inflation rate cannot be negative.")
    ELSE IF years <= 0 THEN Err("Years must be greater than zero.")
    ELSE [ok |-> TRUE,
          profit |-> [principal |-> invested_amount, annual_rate |-> annual_rate,
                      inflation_rate |-> inflation_rate, years |-> years]]

\* The float nan: a wage of the request that no comparison holds of. It is
\* kept as a reserved value that every comparison tests for first.
NaN == -AmountLimit

\* nps_tax_benefit(invested_amount, monthly_wage) as the term of its
\* arguments; min() over a decimal NaN raises decimal.InvalidOperation.
nps_tax_benefit(invested_amount, monthly_wage) ==
    IF monthly_wage = NaN THEN Err("decimal.InvalidOperation")
    ELSE [ok |-> TRUE, invested_amount |-> invested_amount, monthly_wage |-> monthly_wage]

\* for period_saving in savings: the entries built, or the first error raised.
RECURSIVE ReturnsLoop(_, _, _, _, _, _, _, _)
ReturnsLoop(savings, n, rate, normalized_inflation, years, instrument_in, wage_in, savings_by_dates) ==
    IF n > Len(savings)
    THEN [ok |-> TRUE, savings_by_dates |-> savings_by_dates]
    ELSE
    LET period_saving == savings[n]
        computed == compute_real_return(period_saving.amount, rate, normalized_inflation, years)
        tax_benefit == IF instrument_in = "nps"
                       THEN nps_tax_benefit(period_saving.amount, wage_in)
                       ELSE [ok |-> TRUE]
    IN
    IF ~computed.ok THEN computed
    ELSE IF ~tax_benefit.ok THEN tax_benefit
    ELSE ReturnsLoop(savings, n + 1, rate, normalized_inflation, years, instrument_in, wage_in,
            Append(savings_by_dates,
                   [start |-> period_saving.start,
                    end |-> period_saving.end,
                    amount |-> period_saving.amount,
                    profits |-> computed.profit,
                    taxBenefit |-> IF instrument_in = "nps" THEN tax_benefit ELSE 0]))

calculate_returns(instrument_in, age_in, wage_in, inflation_in, txs, q_list, p_list, k_list, q_strategy) ==
    IF age_in < 0 THEN Err("Age cannot be negative.")
    ELSE IF wage_in # NaN /\ wage_in < 0 THEN Err("Wage cannot be negative.")
    ELSE
    LET normalized == _normalize_inflation_rate(inflation_in)
    IN
    IF ~normalized.ok THEN normalized
    ELSE
    LET canonical_transactions == _prepare_returns_transactions(txs).canonical_transactions
    IN
    IF canonical_transactions = <<>>
    THEN Err("No valid transactions available for returns calculation.")
    ELSE
    LET ordered_indices == OrderedIndices(canonical_transactions)
        adjusted_transactions == _apply_temporal_rules(canonical_transactions, q_list, p_list,
                                                       ordered_indices, q_strategy)
        ordered_adjusted_transactions ==
            [n \in 1..Len(ordered_indices) |-> adjusted_transactions[ordered_indices[n]]]
        savings == aggregate_savings_by_k(ordered_adjusted_transactions, k_list, TRUE)
        years == years_to_investment_horizon(age_in)
        rate == IF instrument_in = "nps" THEN NPS_RATE ELSE INDEX_RATE
        looped == ReturnsLoop(savings, 1, rate, normalized.rate, years, instrument_in, wage_in, <<>>)
    IN
    IF ~looped.ok THEN looped
    ELSE [ok |-> TRUE,
          transactionsTotalAmount |->
              money(SumSeq([i \in 1..Len(canonical_transactions) |-> canonical_transactions[i].amount])),
          transactionsTotalCeiling |->
              money(SumSeq([i \in 1..Len(canonical_transactions) |-> canonical_transactions[i].ceiling])),
          savingsByDates |-> looped.savings_by_dates]

-----------------------------------------------------------------------------
(* Specification SpecReturns: calculate_returns on requests whose records  *)
(* have a date that parses or not, an amount that is accepted or not, and  *)
(* possibly a ceiling and a remanent of their own.                         *)

ReturnsDates == {Some(BadTs)} \cup {Some(FullTs(e)) : e \in Epochs}

\* amount / ceiling / remanent as submitted
ReturnsKinds ==
    {<<Some(250 * Scale), None, None>>,
     <<Some(375 * Scale), Some(1000 * Scale), Some(99 * Scale)>>,
     <<Some(-(10 * Scale)), None, None>>}

ReturnsRaw ==
    SeqsUpTo({[date |-> d, timestamp |-> None, amount |-> kind[1],
               ceiling |-> kind[2], remanent |-> kind[3]] :
                  d \in ReturnsDates, kind \in ReturnsKinds}, MaxTx)

\* <<q, p, k>> as built by build_period_payload
ReturnsPeriods ==
    {<<<<>>, <<>>, <<>>>>,
     <<<<>>, <<>>, <<BuiltKPeriod(<<1, MaxEpoch>>, 0)>>>>,
     <<QSample, PSample, <<BuiltKPeriod(<<1, MaxEpoch>>, 0), BuiltKPeriod(<<0, 0>>, 1)>>>>}

\* <<instrument, age, wage, inflation>>
ReturnsProfiles ==
    {<<"nps", 29, 50000 * Scale, 5500>>,
     <<"index", 60, 0, 55>>,
     <<"nps", -1, 0, 0>>,
     <<"index", 0, -Scale, 0>>,
     <<"nps", 75, 0, -1>>,
     <<"nps", 29, NaN, 5500>>}

InitReturns ==
    /\ pc = "ready"
    /\ raw \in ReturnsRaw
    /\ transactions = <<>>
    /\ \E periods \in ReturnsPeriods :
          q_periods = periods[1] /\ p_periods = periods[2] /\ k_periods = periods[3]
    /\ \E profile \in ReturnsProfiles :
          /\ instrument = profile[1]
          /\ age = profile[2]
          /\ wage = profile[3]
          /\ inflation = profile[4]
    /\ max_investment = None
    /\ result = <<>>

ReturnsStrategies(txs, q_list) ==
    _choose_q_strategy(Ordered(_prepare_returns_transactions(txs).canonical_transactions), q_list)

CallCalculateReturns ==
    /\ pc = "ready"
    /\ pc' = "calculate_returns"
    /\ \E q_strategy \in ReturnsStrategies(raw, q_periods) :
          result' = calculate_returns(instrument, age, wage, inflation, raw,
                                      q_periods, p_periods, k_periods, q_strategy)
    /\ UNCHANGED <<raw, q_periods, p_periods, k_periods, wage, max_investment, instrument, age, inflation, transactions>>

NextReturns == CallCalculateReturns

SpecReturns == InitReturns /\ [][NextReturns]_vars

NoValidTransactions == "No valid transactions available for returns calculation."

\* The raw record canonicalizes from its date/timestamp and amount alone.
ReturnsAccepts(transaction) ==
    /\ ~IsNone(NormalizedDateOf(transaction))
    /\ ~IsNone(transaction.amount)
    /\ 0 <= Val(transaction.amount)
    /\ Val(transaction.amount) < AmountLimit

\* The positions, among the first n, of the records that remain: accepted,
\* and not repeating the date of an earlier remaining record.
RECURSIVE Remaining(_, _)
Remaining(txs, n) ==
    IF n = 0 THEN {}
    ELSE LET before == Remaining(txs, n - 1)
         IN  IF /\ ReturnsAccepts(txs[n])
                /\ \A j \in before : NormalizedDateOf(txs[j]) # NormalizedDateOf(txs[n])
             THEN before \cup {n}
             ELSE before

RECURSIVE SumOver(_, _)
SumOver(S, f) ==
    IF S = {} THEN 0
    ELSE LET x == CHOOSE y \in S : TRUE IN f[x] + SumOver(S \ {x}, f)

\* The epoch and remanent the specification gives a remaining record.
ReturnsExpected(transaction) ==
    [epoch |-> parse_timestamp_to_epoch(RawDate(transaction)).epoch,
     remanent |-> CeilHundred(Val(transaction.amount)) - Val(transaction.amount)]

-----------------------------------------------------------------------------
(* app/core/engine.py: _build_periods and build_period_payload *)

\* Every epoch of Epochs lies in one calendar year; NextYear is the first
\* instant of the following year.
NextYear == MaxEpoch + 1

\* int(timestamp[0:4]) of a normalized timestamp
year(timestamp) == IF timestamp.t < NextYear THEN 0 ELSE 1

IndexText(kind, index) == kind \o "[" \o ToString(index) \o "]"

\* lines 184-197: the fixed / extra value of a q / p period
BuildPeriodValue(value, kind, field_name) ==
    IF IsNone(value) THEN Err(to_float_missing(field_name))
    ELSE IF Val(value) < 0
    THEN Err(kind \o "." \o field_name \o " cannot be negative.")
    ELSE IF Val(value) >= AmountLimit
    THEN Err(kind \o "." \o field_name \o " must be < 500000 as per challenge constraints.")
    ELSE [ok |-> TRUE, value |-> money(Val(value))]

\* One pass of the loop of _build_periods: the built period or the error.
BuildPeriod(period, kind, index) ==
    IF IsNone(period.start) \/ IsNone(period.end)
    THEN Err(IndexText(kind, index) \o " must include start and end.")
    ELSE
    LET s == parse_timestamp_to_epoch(Val(period.start))
        e == parse_timestamp_to_epoch(Val(period.end))
    IN
    IF ~s.ok THEN s
    ELSE IF ~e.ok THEN e
    ELSE IF s.epoch > e.epoch
    THEN Err(IndexText(kind, index) \o " start must be <= end.")
    ELSE IF kind = "k" /\ year(s.normalized) # year(e.normalized)
    THEN Err(IndexText(kind, index) \o " cannot span multiple years.")
    ELSE
    LET built_period == [start |-> s.normalized, end |-> e.normalized,
                         start_epoch |-> s.epoch, end_epoch |-> e.epoch,
                         index |-> index]
    IN
    IF kind = "q"
    THEN LET fixed == BuildPeriodValue(period.fixed, "q", "fixed")
         IN  IF ~fixed.ok THEN fixed
             ELSE [ok |-> TRUE, period |-> built_period @@ [value |-> fixed.value]]
    ELSE IF kind = "p"
    THEN LET extra == BuildPeriodValue(period.extra, "p", "extra")
         IN  IF ~extra.ok THEN extra
             ELSE [ok |-> TRUE, period |-> built_period @@ [value |-> extra.value]]
    ELSE [ok |-> TRUE, period |-> built_period]

RECURSIVE BuildPeriodsLoop(_, _, _, _)
BuildPeriodsLoop(periods, kind, i, built) ==
    IF i > Len(periods) THEN [ok |-> TRUE, built |-> built]
    ELSE LET one == BuildPeriod(periods[i], kind, i - 1)
         IN  IF ~one.ok THEN one
             ELSE BuildPeriodsLoop(periods, kind, i + 1, Append(built, one.period))

_build_periods(periods, kind) == BuildPeriodsLoop(periods, kind, 1, <<>>)

build_period_payload(q, p, k) ==
    LET qb == _build_periods(q, "q")
    IN  IF ~qb.ok THEN qb
        ELSE LET pb == _build_periods(p, "p")
             IN  IF ~pb.ok THEN pb
                 ELSE LET kb == _build_periods(k, "k")
                      IN  IF ~kb.ok THEN kb
                          ELSE [ok |-> TRUE, q |-> qb.built, p |-> pb.built, k |-> kb.built]

\* Period inputs: start and end pairs that are well formed, reversed, in
\* two calendar years, missing or unparsable.
PeriodBounds ==
    { <<Some(ShortTs(0)), Some(FullTs(0))>>,
      <<Some(FullTs(0)), Some(FullTs(NextYear))>>,
      <<Some(FullTs(MaxEpoch)), Some(FullTs(0))>>,
      <<None, Some(FullTs(0))>>,
      <<Some(FullTs(0)), None>>,
      <<Some(FullTs(0)), Some(BadTs)>> }

PeriodValues == {None, Some(-1), Some(40 * Scale), Some(AmountLimit - 4), Some(AmountLimit)}

QPeriodInputs == {[start |-> b[1], end |-> b[2], fixed |-> v] : b \in PeriodBounds, v \in PeriodValues}
PPeriodInputs == {[start |-> b[1], end |-> b[2], extra |-> v] : b \in PeriodBounds, v \in PeriodValues}
KPeriodInputs == {[start |-> b[1], end |-> b[2]] : b \in PeriodBounds}

GoodQ == [start |-> Some(FullTs(0)), end |-> Some(FullTs(NextYear)), fixed |-> Some(0)]
GoodP == [start |-> Some(FullTs(0)), end |-> Some(FullTs(NextYear)), extra |-> Some(25 * Scale)]

PeriodRequests ==
    {<<q, <<>>, <<>>>> : q \in SeqsUpTo(QPeriodInputs, MaxQ)}
    \cup {<<(<<GoodQ>>), p, <<>>>> : p \in SeqsUpTo(PPeriodInputs, MaxP)}
    \cup {<<(<<GoodQ>>), (<<GoodP>>), k>> : k \in SeqsUpTo(KPeriodInputs, MaxK)}

InitPeriods ==
    /\ pc = "request"
    /\ \E r \in PeriodRequests : raw = [q |-> r[1], p |-> r[2], k |-> r[3]]
    /\ q_periods = <<>> /\ p_periods = <<>> /\ k_periods = <<>>
    /\ wage = 0 /\ max_investment = None
    /\ instrument = "nps" /\ age = 0 /\ inflation = 0
    /\ transactions = <<>>
    /\ result = None

CallBuildPeriodPayload ==
    /\ pc = "request"
    /\ pc' = "build_period_payload"
    /\ result' = build_period_payload(raw.q, raw.p, raw.k)
    /\ UNCHANGED <<raw, q_periods, p_periods, k_periods, wage, max_investment, instrument, age, inflation, transactions>>

NextPeriods == CallBuildPeriodPayload

SpecPeriods == InitPeriods /\ [][NextPeriods]_vars

\* The input interval violates one of the conditions of the claim.
PeriodViolates(period, kind) ==
    \/ IsNone(period.start) \/ IsNone(period.end)
    \/ ~parse_timestamp_to_epoch(Val(period.start)).ok
    \/ ~parse_timestamp_to_epoch(Val(period.end)).ok
    \/ Val(period.start).t > Val(period.end).t
    \/ kind = "k" /\ Val(period.start).t < NextYear /\ Val(period.end).t >= NextYear
    \/ kind = "q" /\ (IsNone(period.fixed) \/ Val(period.fixed) < 0 \/ Val(period.fixed) >= AmountLimit)
    \/ kind = "p" /\ (IsNone(period.extra) \/ Val(period.extra) < 0 \/ Val(period.extra) >= AmountLimit)

SomePeriodViolates ==
    \/ \E i \in 1..Len(raw.q) : PeriodViolates(raw.q[i], "q")
    \/ \E i \in 1..Len(raw.p) : PeriodViolates(raw.p[i], "p")
    \/ \E i \in 1..Len(raw.k) : PeriodViolates(raw.k[i], "k")

BuiltListHolds(list, kind) ==
    \A i \in 1..Len(list) :
        /\ list[i].start_epoch <= list[i].end_epoch
        /\ list[i].index = i - 1
        /\ kind = "k" => (list[i].start_epoch < NextYear <=> list[i].end_epoch < NextYear)
        /\ kind # "k" => (0 <= list[i].value /\ list[i].value < AmountLimit)

\* C16: build_period_payload either fails or returns lists in which every
\* interval has start_epoch <= end_epoch and index equal to its zero-based
\* input position, every K interval lies in one calendar year, every Q
\* value satisfies 0 <= fixed < 500000 and every P value 0 <= extra <
\* 500000; it fails exactly when some input interval violates one of these
\* or has an unparsable or missing start or end.
C16_BuiltPeriodsAreValid ==
    pc = "build_period_payload" =>
        /\ result.ok <=> ~SomePeriodViolates
        /\ result.ok => /\ BuiltListHolds(result.q, "q")
                        /\ BuiltListHolds(result.p, "p")
                        /\ BuiltListHolds(result.k, "k")


Magnitude(x) == IF x < 0 THEN -x ELSE x

\* The supplied ceiling or remanent of a raw record differs by more than
\* 0.01 from the next multiple of 100 of its amount, or from that multiple
\* minus the amount.
MisstatesCeilingOrRemanent(transaction) ==
    /\ ~IsNone(transaction.amount) /\ Val(transaction.amount) >= 0
    /\ ~IsNone(transaction.ceiling) /\ ~IsNone(transaction.remanent)
    /\ \/ Magnitude(Val(transaction.ceiling) - CeilHundred(Val(transaction.amount))) > Tolerance
       \/ Magnitude(Val(transaction.remanent)
                - (CeilHundred(Val(transaction.amount)) - Val(transaction.amount))) > Tolerance

\* C17: every record in the valid list of validate_transactions has ceiling
\* equal to the next multiple of 100 of its amount and remanent equal to
\* that ceiling minus the amount, both within 0.01; a record whose supplied
\* ceiling or remanent differs from these by more than 0.01 is never in
\* valid, whatever the cap.
C17_ValidIsWellFormed ==
    (pc = "validate_transactions" /\ result.ok) =>
        /\ \A n \in 1..Len(result.valid) :
              /\ Magnitude(result.valid[n].ceiling - CeilHundred(result.valid[n].amount)) <= Tolerance
              /\ Magnitude(result.valid[n].remanent
                       - (CeilHundred(result.valid[n].amount) - result.valid[n].amount)) <= Tolerance
        /\ \A ix \in 1..Len(raw) :
              MisstatesCeilingOrRemanent(raw[ix]) => EntriesOf(result.valid, ix) = {}


-----------------------------------------------------------------------------
(* Specification SpecRerun: the temporal engine run on canonical           *)
(* transactions and then run again on the transactions it adjusted, with   *)
(* the same q and p lists.                                                 *)

InitRerun ==
    /\ pc = "ready"
    /\ raw \in ExampleRaw
    /\ transactions = CanonicalOf(raw)
    /\ q_periods \in QLists(1)
    /\ p_periods \in PLists(1)
    /\ k_periods = <<>>
    /\ wage = 0
    /\ max_investment = None
    /\ instrument = "nps"
    /\ age = 0
    /\ inflation = 0
    /\ result = <<>>

\* The engine mutates the list in place; result keeps the adjusted_remanent
\* values the first run wrote.
CallApplyTemporalRulesAgain ==
    /\ pc = "_apply_temporal_rules"
    /\ pc' = "rerun"
    /\ result' = [i \in 1..Len(transactions) |-> transactions[i].adjusted_remanent]
    /\ \E q_strategy \in _choose_q_strategy(Ordered(transactions), q_periods) :
          transactions' = _apply_temporal_rules(transactions, q_periods, p_periods,
                                                OrderedIndices(transactions), q_strategy)
    /\ UNCHANGED <<raw, q_periods, p_periods, k_periods, wage, max_investment, instrument, age, inflation>>

NextRerun == CallApplyTemporalRules \/ CallApplyTemporalRulesAgain

SpecRerun == InitRerun /\ [][NextRerun]_vars

\* C18: running _apply_temporal_rules a second time on the transactions it
\* already adjusted, with the same Q and P lists, yields the same
\* adjusted_remanent for every transaction as the first run, and the engine
\* changes no field of a transaction other than adjusted_remanent.
C18_RerunKeepsAdjusted ==
    /\ pc = "rerun" =>
          /\ Len(result) = Len(transactions)
          /\ \A i \in 1..Len(transactions) : transactions[i].adjusted_remanent = result[i]
    /\ pc \in {"_apply_temporal_rules", "rerun"} =>
          /\ Len(transactions) = Len(raw)
          /\ \A i \in 1..Len(transactions) :
                /\ ~IsNone(transactions[i].adjusted_remanent)
                /\ [transactions[i] EXCEPT !.adjusted_remanent = None] = CanonicalOf(raw)[i]

\* A second run over a transaction with a remanent of 50 that lies in a p
\* period and in no q period: both runs give 50 + 25.
C18_Witness ==
    /\ pc = "rerun"
    /\ \E i \in 1..Len(transactions) :
          /\ QContaining(q_periods, transactions[i].epoch) = {}
          /\ PContaining(p_periods, transactions[i].epoch) # {}
          /\ transactions[i].remanent = 50 * Scale
          /\ result[i] = Some(75 * Scale)
          /\ transactions[i].adjusted_remanent = Some(75 * Scale)


-----------------------------------------------------------------------------
(* Specification SpecRecanon: SpecCanon followed by a second               *)
(* canonicalization of the record the first one returned.                  *)

\* A canonical transaction read as an input record: every key is present.
CanonicalAsInput(tx) ==
    [date |-> Some(tx.date), timestamp |-> Some(tx.timestamp), amount |-> Some(tx.amount),
     ceiling |-> Some(tx.ceiling), remanent |-> Some(tx.remanent)]

\* A record of the transactions list of build_transactions read as an input
\* record: it has no timestamp key.
OutputAsInput(tx) ==
    [date |-> Some(tx.date), timestamp |-> None, amount |-> Some(tx.amount),
     ceiling |-> Some(tx.ceiling), remanent |-> Some(tx.remanent)]

CallCanonicalAgain ==
    /\ pc \in {"synthesize", "strict"}
    /\ result.ok
    /\ pc' = "recanonicalize"
    /\ transactions' = <<result.tx>>
    /\ \E require_ceiling_and_remanent \in BOOLEAN :
          result' = _canonical_transaction(CanonicalAsInput(result.tx), TRUE,
                                           require_ceiling_and_remanent)
    /\ UNCHANGED <<raw, q_periods, p_periods, k_periods, wage, max_investment, instrument, age, inflation>>

CallCanonicalParsed ==
    /\ pc = "build_transactions"
    /\ result.ok
    /\ Len(result.transactions) = 1
    /\ pc' = "recanonicalize_parsed"
    /\ transactions' = result.transactions
    /\ \E require_ceiling_and_remanent \in BOOLEAN :
          result' = _canonical_transaction(OutputAsInput(result.transactions[1]), TRUE,
                                           require_ceiling_and_remanent)
    /\ UNCHANGED <<raw, q_periods, p_periods, k_periods, wage, max_investment, instrument, age, inflation>>

NextRecanon == NextCanon \/ CallCanonicalAgain \/ CallCanonicalParsed

SpecRecanon == InitCanon /\ [][NextRecanon]_vars

\* C19: feeding a canonical transaction produced by _canonical_transaction
\* or by build_transactions back into _canonical_transaction succeeds and
\* returns a record with the same date, epoch, amount, ceiling and remanent.
C19_CanonicalizationIdempotent ==
    /\ pc = "recanonicalize" =>
          /\ result.ok
          /\ result.tx.date = transactions[1].date
          /\ result.tx.epoch = transactions[1].epoch
          /\ result.tx.amount = transactions[1].amount
          /\ result.tx.ceiling = transactions[1].ceiling
          /\ result.tx.remanent = transactions[1].remanent
    /\ pc = "recanonicalize_parsed" =>
          /\ result.ok
          /\ result.tx.date = transactions[1].date
          /\ result.tx.epoch = transactions[1].date.t
          /\ result.tx.amount = transactions[1].amount
          /\ result.tx.ceiling = transactions[1].ceiling
          /\ result.tx.remanent = transactions[1].remanent


-----------------------------------------------------------------------------
(* Specification SpecServer: two requests in flight at once.  The          *)
(* endpoints are synchronous functions that the framework runs on worker   *)
(* threads, so the loops of two calls interleave record by record.  Each   *)
(* call has its own frame: its position in its batch and the locals its    *)
(* loop created on entry.  raw holds the requests, transactions the frames *)
(* and result the responses.                                               *)

Pipelines == {"parse", "validator", "filter", "returns"}

\* The batch state a call creates on entry.
LoopInit(pipeline) ==
    IF pipeline = "validator"
    THEN [valid_candidates |-> <<>>, invalid |-> <<>>, duplicates |-> <<>>, seen_timestamps |-> {}]
    ELSE IF pipeline = "filter"
    THEN [canonical_transactions |-> <<>>, ixs |-> <<>>, invalid |-> <<>>, seen_timestamps |-> {}]
    ELSE IF pipeline = "returns"
    THEN [canonical_transactions |-> <<>>, ixs |-> <<>>, seen_timestamps |-> {},
          invalid_count |-> 0, duplicate_count |-> 0]
    ELSE [ok |-> TRUE, transactions |-> <<>>]

\* One pass of the first loop of a call over the record at position i.
LoopStep(pipeline, txs, i, st) ==
    LET upto == SubSeq(txs, 1, i)
    IN  IF pipeline = "validator" THEN ValidateStructure(upto, i, st)
        ELSE IF pipeline = "filter" THEN FilterCanonicalize(upto, i, st)
        ELSE IF pipeline = "returns" THEN PrepareReturns(upto, i, st)
        ELSE BuildLoop(upto, i, st.transactions)

\* The first loop of a call that runs alone.
LoopAlone(pipeline, txs) ==
    IF pipeline = "validator" THEN ValidateStructure(txs, 1, LoopInit(pipeline))
    ELSE IF pipeline = "filter" THEN FilterCanonical(txs)
    ELSE IF pipeline = "returns" THEN _prepare_returns_transactions(txs)
    ELSE BuildLoop(txs, 1, <<>>)

\* Mutant: the seen set is lifted to the module, so a call consults the
\* dates every call in flight has seen.
LocalsShareSeen(frames, r) ==
    IF "seen_timestamps" \in DOMAIN frames[r].st
    THEN [frames[r].st EXCEPT !.seen_timestamps =
            UNION {IF "seen_timestamps" \in DOMAIN frames[s].st
                   THEN frames[s].st.seen_timestamps ELSE {} : s \in 1..Len(frames)}]
    ELSE frames[r].st

\* The locals the loop of call r reads and writes: those of its own frame.
Locals(frames, r) == frames[r].st

\* Requests: any pipeline over a batch of well-formed records at any dates
\* (repeats included), next to a request of any pipeline whose batch is at
\* the first date, once or twice.
ServerRecord(e) == ValidatorRecord(e, Some(250 * Scale), Some(300 * Scale), Some(50 * Scale))

ServerBatches == {[i \in 1..Len(es) |-> ServerRecord(es[i])] : es \in SeqsUpTo(Epochs, MaxTx)}
ServerProbes == {<<ServerRecord(0)>>, <<ServerRecord(0), ServerRecord(0)>>}

InitServer ==
    /\ pc = "serving"
    /\ \E p1 \in Pipelines, p2 \in Pipelines, b1 \in ServerBatches, b2 \in ServerProbes :
          raw = <<[pipeline |-> p1, transactions |-> b1], [pipeline |-> p2, transactions |-> b2]>>
    /\ transactions = [r \in 1..2 |-> [i |-> 1, st |-> LoopInit(raw[r].pipeline)]]
    /\ result = [r \in 1..2 |-> None]
    /\ q_periods = <<>> /\ p_periods = <<>> /\ k_periods = <<>>
    /\ wage = 0 /\ max_investment = None
    /\ instrument = "nps" /\ age = 0 /\ inflation = 0

\* A call in flight handles its next record.
ServeRecord ==
    /\ pc = "serving"
    /\ \E r \in 1..Len(raw) :
          /\ transactions[r].i <= Len(raw[r].transactions)
          /\ transactions' = [transactions EXCEPT ![r] =
                [i |-> transactions[r].i + 1,
                 st |-> LoopStep(raw[r].pipeline, raw[r].transactions, transactions[r].i,
                                 Locals(transactions, r))]]
    /\ UNCHANGED <<pc, raw, q_periods, p_periods, k_periods, wage, max_investment, instrument, age, inflation, result>>

\* A call that has handled its batch returns what its loop built.
Respond ==
    /\ pc = "serving"
    /\ \E r \in 1..Len(raw) :
          /\ transactions[r].i > Len(raw[r].transactions)
          /\ IsNone(result[r])
          /\ result' = [result EXCEPT ![r] = Some(transactions[r].st)]
    /\ UNCHANGED <<pc, raw, q_periods, p_periods, k_periods, wage, max_investment, instrument, age, inflation, transactions>>

NextServer == ServeRecord \/ Respond

SpecServer == InitServer /\ [][NextServer]_vars

\* The records call r reports as duplicates each repeat the date of an
\* earlier record of the same batch.
OwnDuplicatesOnly(request, st) ==
    LET repeats == {ix \in 1..Len(request.transactions) : RepeatsEarlierDate(request.transactions, ix)}
    IN  /\ request.pipeline = "validator" =>
              \A n \in 1..Len(st.duplicates) : st.duplicates[n].ix \in repeats
        /\ request.pipeline = "filter" =>
              \A n \in 1..Len(st.invalid) : st.invalid[n].ix \in repeats
        /\ request.pipeline = "returns" => st.duplicate_count = Cardinality(repeats)

\* C20: the core is stateless across requests: what a call returns for its
\* input is what it returns when it runs alone, whichever other call is
\* handled before it or interleaved with it, and a date seen by one call
\* never makes another call report a record as a duplicate.
C20_StatelessAcrossRequests ==
    pc = "serving" =>
        \A r \in 1..Len(raw) :
            ~IsNone(result[r]) =>
                /\ Val(result[r]) = LoopAlone(raw[r].pipeline, raw[r].transactions)
                /\ OwnDuplicatesOnly(raw[r], Val(result[r]))

\* A validator call returns without duplicates while a filter call that has
\* already seen the same date is still in flight.
C20_Witness ==
    /\ pc = "serving"
    /\ raw[1].pipeline = "filter" /\ raw[2].pipeline = "validator"
    /\ Len(raw[1].transactions) = 2 /\ transactions[1].i = 2
    /\ raw[1].transactions[1] = raw[2].transactions[1]
    /\ Len(raw[2].transactions) = 1
    /\ ~IsNone(result[2])
    /\ Val(result[2]).duplicates = <<>>
    /\ Len(Val(result[2]).valid_candidates) = 1


-----------------------------------------------------------------------------
(* The canonicalization pass of filter_transactions (SpecFilter) *)

NegativeMessage == "Negative amounts are not allowed"
DuplicateMessage == "Duplicate transaction"

HasNegativeAmount(transaction) == ~IsNone(transaction.amount) /\ Val(transaction.amount) < 0

\* The record at position ix canonicalizes and an earlier record that
\* canonicalizes has the same normalized date.
RepeatsAcceptedDate(txs, ix) ==
    /\ _canonical_transaction(txs[ix], TRUE, FALSE).ok
    /\ \E j \in 1..(ix - 1) :
          /\ _canonical_transaction(txs[j], TRUE, FALSE).ok
          /\ NormalizedDateOf(txs[j]) = NormalizedDateOf(txs[ix])

\* The record at position ix has exactly one entry in invalid, with the message.
ReportedOnceAs(ix, message) ==
    /\ Cardinality(EntriesOf(result.invalid, ix)) = 1
    /\ \A n \in EntriesOf(result.invalid, ix) : result.invalid[n].message = message

\* The entries of the canonicalization pass come in input order.
PassEntriesInOrder ==
    \A m \in 1..Len(result.invalid), n \in 1..Len(result.invalid) :
        (/\ m < n
         /\ result.invalid[m].message \in {NegativeMessage, DuplicateMessage}
         /\ result.invalid[n].message \in {NegativeMessage, DuplicateMessage})
            => result.invalid[m].ix < result.invalid[n].ix

-----------------------------------------------------------------------------
(* Specification SpecMerge: _merge_k_periods on any non-empty built k list *)
(* and _membership_in_k on epoch-sorted transactions (repeated epochs      *)
(* included).                                                              *)

InitMerge ==
    /\ pc = "ready"
    /\ raw \in ExampleRaw
    /\ transactions = CanonicalOf(raw)
    /\ IsAscending(transactions)
    /\ q_periods = <<>>
    /\ p_periods = <<>>
    /\ k_periods \in KLists(MaxK)
    /\ Len(k_periods) > 0
    /\ wage = 0
    /\ max_investment = None
    /\ instrument = "nps"
    /\ age = 0
    /\ inflation = 0
    /\ result = <<>>

CallMergeKPeriods ==
    /\ pc = "ready"
    /\ pc' = "_merge_k_periods"
    /\ result' = _merge_k_periods(k_periods)
    /\ UNCHANGED <<raw, q_periods, p_periods, k_periods, wage, max_investment, instrument, age, inflation, transactions>>

CallMembershipInK ==
    /\ pc = "ready"
    /\ pc' = "_membership_in_k"
    /\ result' = _membership_in_k(transactions, k_periods, OrderedIndices(transactions))
    /\ UNCHANGED <<raw, q_periods, p_periods, k_periods, wage, max_investment, instrument, age, inflation, transactions>>

NextMerge == CallMergeKPeriods \/ CallMembershipInK

SpecMerge == InitMerge /\ [][NextMerge]_vars

InMerged(merged, epoch) == \E n \in 1..Len(merged) : merged[n][1] <= epoch /\ epoch <= merged[n][2]

\* C22: for every non-empty list of K-intervals, _merge_k_periods returns
\* intervals that are sorted by start, pairwise disjoint and separated by a
\* gap of more than 1 second, whose union contains exactly the integer
\* epochs of the union of the input K-intervals; the two-pointer sweep of
\* _membership_in_k over epoch-sorted transactions marks a transaction true
\* iff its epoch is in that union.
C22_MergedIsTheUnion ==
    /\ pc = "_merge_k_periods" =>
          /\ Len(result) > 0
          /\ \A n \in 1..Len(result) : result[n][1] <= result[n][2]
          /\ \A m \in 1..Len(result), n \in 1..Len(result) :
                m < n => result[n][1] - result[m][2] > 1
          /\ \A epoch \in 0..(MaxEpoch + 1) :
                InMerged(result, epoch) <=> InKUnion(k_periods, epoch)
    /\ pc = "_membership_in_k" =>
          /\ Len(result) = Len(transactions)
          /\ \A i \in 1..Len(transactions) :
                result[i] <=> InKUnion(k_periods, transactions[i].epoch)

\* Two k periods given in descending order that touch are coalesced into one.
C22_Witness ==
    /\ pc = "_merge_k_periods"
    /\ Len(k_periods) = 2
    /\ k_periods[2].end_epoch + 1 = k_periods[1].start_epoch
    /\ result = <<(<<k_periods[2].start_epoch, k_periods[1].end_epoch>>)>>


-----------------------------------------------------------------------------
(* The cumulative cap of validate_transactions (SpecValidator) *)

CapMessage == "Cumulative remanent exceeds maximum allowed investment."

\* The structurally valid, non-duplicate records of the request, in input order.
CapCandidates ==
    ValidateStructure(raw, 1, [valid_candidates |-> <<>>, invalid |-> <<>>,
                               duplicates |-> <<>>, seen_timestamps |-> {}]).valid_candidates

\* The cap the walk compares with: the requested cap rounded to cents.
CapLimit == money(RequestedCap)

\* The sum of the remanents of the candidates accepted among the first n.
RECURSIVE AcceptedTotal(_, _)
AcceptedTotal(candidates, n) ==
    IF n = 0 THEN 0
    ELSE LET before == AcceptedTotal(candidates, n - 1)
         IN  IF before + candidates[n].tx.remanent <= CapLimit
             THEN before + candidates[n].tx.remanent
             ELSE before

FitsUnderCap(candidates, n) ==
    AcceptedTotal(candidates, n - 1) + candidates[n].tx.remanent <= CapLimit

CapRejections(ix) ==
    {n \in EntriesOf(result.invalid, ix) : result.invalid[n].message = CapMessage}

-----------------------------------------------------------------------------
(* Specification SpecDsu: the loop of _q_overrides_dsu, one priority-sorted *)
(* q period at a time, on epoch-sorted transactions (repeated epochs        *)
(* included) and any non-empty built q list (repeated bounds included).     *)
(* result holds the number of periods handled, the state of the loop and    *)
(* the state before the last iteration.                                     *)

InitDsu ==
    /\ pc = "_q_overrides_dsu"
    /\ raw \in ExampleRaw
    /\ Len(raw) > 0
    /\ transactions = CanonicalOf(raw)
    /\ IsAscending(transactions)
    /\ q_periods \in QLists(MaxQ)
    /\ Len(q_periods) > 0
    /\ p_periods = <<>>
    /\ k_periods = <<>>
    /\ wage = 0
    /\ max_investment = None
    /\ instrument = "nps"
    /\ age = 0
    /\ inflation = 0
    /\ result = [n |-> 0, st |-> DsuInit(Len(raw)), before |-> DsuInit(Len(raw))]

\* for q_period in q_priority_sorted: one iteration
DsuIterate ==
    /\ pc = "_q_overrides_dsu"
    /\ result.n < Len(q_periods)
    /\ result' = [n |-> result.n + 1,
                  st |-> DsuStep(result.st, Ordered(transactions),
                                 DsuPrioritySorted(q_periods)[result.n + 1]),
                  before |-> result.st]
    /\ UNCHANGED <<pc, raw, q_periods, p_periods, k_periods, wage, max_investment, instrument, age, inflation, transactions>>

NextDsu == DsuIterate

SpecDsu == InitDsu /\ [][NextDsu]_vars

\* 0-based positions of the sorted transactions, and N.
DsuSize == Len(transactions)
DsuPositions == 0..(DsuSize - 1)

\* The smallest position >= i that holds no override, N if there is none.
NextUnassigned(overrides, i) ==
    CHOOSE j \in i..DsuSize :
        /\ j = DsuSize \/ IsNone(overrides[j])
        /\ \A m \in i..(j - 1) : ~IsNone(overrides[m])

\* The first n priority-sorted periods that contain the epoch at a position.
HandledContaining(q_priority_sorted, ordered_times, position, n) ==
    {m \in 1..n : InPeriod(q_priority_sorted[m], ordered_times[position + 1])}

\* The override the first of them gives, None if there is none.
FirstHandledValue(q_priority_sorted, ordered_times, position, n) ==
    LET containing == HandledContaining(q_priority_sorted, ordered_times, position, n)
    IN  IF containing = {} THEN None
        ELSE LET first == CHOOSE m \in containing : \A other \in containing : m <= other
             IN  Some(q_priority_sorted[first].value)

\* C24: in _q_overrides_dsu, after any prefix of the priority-sorted
\* Q-intervals, find(i) is the smallest position >= i without an override
\* (N if none), every position holds the override of the first interval that
\* contains it and is assigned at most once, assigned_count is the number of
\* positions holding an override and is at most N, no interval is processed
\* once all N positions are assigned, and the cached bounds of a pair
\* (start_epoch, end_epoch) are the bounds a recomputation gives.
C24_DsuInvariants ==
    pc = "_q_overrides_dsu" =>
        \E q_priority_sorted \in {DsuPrioritySorted(q_periods)} :
        \E ordered_times \in {Ordered(transactions)} :
        /\ \A i \in 0..DsuSize :
              find(result.st.parent, i).root = NextUnassigned(result.st.overrides, i)
        /\ \A position \in DsuPositions :
              result.st.overrides[position]
                  = FirstHandledValue(q_priority_sorted, ordered_times, position, result.n)
        /\ result.st.assigned_count
              = Cardinality({position \in DsuPositions : ~IsNone(result.st.overrides[position])})
        /\ result.st.assigned_count
              = result.before.assigned_count
                  + Cardinality({position \in DsuPositions :
                        /\ IsNone(result.before.overrides[position])
                        /\ ~IsNone(result.st.overrides[position])})
        /\ result.st.assigned_count <= DsuSize
        /\ result.before.assigned_count >= DsuSize =>
              /\ result.st.overrides = result.before.overrides
              /\ result.st.parent = result.before.parent
              /\ result.st.bounds_cache = result.before.bounds_cache
        /\ \A cache_key \in DOMAIN result.st.bounds_cache :
              result.st.bounds_cache[cache_key]
                  = <<bisect_left(ordered_times, cache_key[1]),
                      bisect_right(ordered_times, cache_key[2]) - 1>>

\* The second interval repeats the bounds of the first, finds them cached
\* and assigns nothing, since the first holds every position it covers.
C24_Witness ==
    /\ pc = "_q_overrides_dsu"
    /\ result.n = 2
    /\ q_periods[1].start_epoch = q_periods[2].start_epoch
    /\ q_periods[1].end_epoch = q_periods[2].end_epoch
    /\ DsuSize = 2
    /\ result.st.assigned_count = 1
    /\ result.before.assigned_count = 1
    /\ result.st.overrides[0] = Some(q_periods[1].value)
    /\ find(result.st.parent, 0).root = 1


-----------------------------------------------------------------------------
(* Specification SpecReturnsPair: SpecReturns followed by a second request *)
(* that differs from the first only in the ceiling and remanent its        *)
(* records supply.  transactions holds the records of the second request   *)
(* and result the results of both.                                         *)

\* <<ceiling, remanent>> as supplied: none, values of another amount, and
\* values no canonical record can have.
SuppliedVariants ==
    {<<None, None>>, <<Some(1000 * Scale), Some(99 * Scale)>>, <<Some(0), Some(-Scale)>>}

WithSupplied(txs, supplied) ==
    [i \in 1..Len(txs) |-> [txs[i] EXCEPT !.ceiling = supplied[1], !.remanent = supplied[2]]]

CallCalculateReturnsVariant ==
    /\ pc = "calculate_returns"
    /\ pc' = "variant"
    /\ \E supplied \in SuppliedVariants :
          /\ transactions' = WithSupplied(raw, supplied)
          /\ \E q_strategy \in ReturnsStrategies(transactions', q_periods) :
                result' = [first |-> result,
                           second |-> calculate_returns(instrument, age, wage, inflation,
                                                        transactions', q_periods, p_periods,
                                                        k_periods, q_strategy)]
    /\ UNCHANGED <<raw, q_periods, p_periods, k_periods, wage, max_investment, instrument, age, inflation>>

NextReturnsPair == CallCalculateReturns \/ CallCalculateReturnsVariant

SpecReturnsPair == InitReturns /\ [][NextReturnsPair]_vars

\* C25: the returns pipeline canonicalizes from date/timestamp and amount
\* only: two returns requests that differ only in the ceiling and remanent
\* their transactions supply both fail with the same error or produce
\* identical transactionsTotalCeiling and savingsByDates.
C25_SuppliedValuesIgnored ==
    pc = "variant" =>
        /\ result.first.ok = result.second.ok
        /\ ~result.first.ok => result.first.error = result.second.error
        /\ result.first.ok =>
              /\ result.first.transactionsTotalCeiling = result.second.transactionsTotalCeiling
              /\ result.first.savingsByDates = result.second.savingsByDates
              /\ result.first.transactionsTotalAmount = result.second.transactionsTotalAmount

\* The second request supplies a ceiling below the amount and a negative
\* remanent on a record the first request left bare, and both succeed with
\* the ceiling total of the bare record.
C25_Witness ==
    /\ pc = "variant"
    /\ Len(raw) = 1
    /\ IsNone(raw[1].ceiling)
    /\ transactions[1].ceiling = Some(0)
    /\ transactions[1].remanent = Some(-Scale)
    /\ result.first.ok
    /\ result.second.ok
    /\ result.second.transactionsTotalCeiling = 300 * Scale
    /\ Len(result.second.savingsByDates) > 0


-----------------------------------------------------------------------------
(* Specification SpecStructure: validate_transactions on one record whose  *)
(* amount, ceiling and remanent are drawn independently, small and large.  *)

StructureAmounts == {0, 4, Cent, 250 * Scale, 300 * Scale, 300 * Scale + Cent, AmountLimit - Cent}

StructureCeilings ==
    {0, 100 * Scale, 300 * Scale, 400 * Scale, 400 * Scale + Cent, AmountLimit, 2 * AmountLimit}

StructureRemanents ==
    {0, Cent, 50 * Scale, 100 * Scale - Cent, 100 * Scale, 100 * Scale + Cent,
     100 * Scale + 2 * Cent, RemanentLimit, RemanentLimit + Cent, 2 * RemanentLimit}

StructureRaw ==
    {<<ValidatorRecord(0, Some(a), Some(c), Some(r))>> :
        a \in StructureAmounts, c \in StructureCeilings, r \in StructureRemanents}

InitStructure ==
    /\ pc = "ready"
    /\ raw \in StructureRaw
    /\ transactions = <<>>
    /\ q_periods = <<>>
    /\ p_periods = <<>>
    /\ k_periods = <<>>
    /\ \E budget \in ValidatorBudgets : wage = budget[1] /\ max_investment = budget[2]
    /\ instrument = "nps"
    /\ age = 0
    /\ inflation = 0
    /\ result = <<>>

NextStructure == CallValidateTransactions

SpecStructure == InitStructure /\ [][NextStructure]_vars

RemanentMessage == "Remanent exceeds challenge constraints (< 500000 required)."

\* C26: in validate_transactions the rejection 'Remanent exceeds challenge
\* constraints (< 500000 required).' is unreachable: any record that passes
\* canonicalization, the duplicate check, the ceiling check and the remanent
\* check has remanent <= 100.01.
C26_RemanentBranchUnreachable ==
    (pc = "validate_transactions" /\ result.ok) =>
        /\ \A n \in 1..Len(result.invalid) : result.invalid[n].message # RemanentMessage
        /\ \A n \in 1..Len(result.valid) : result.valid[n].remanent <= 100 * Scale + Cent
        /\ \A n \in 1..Len(result.invalid) :
              result.invalid[n].message = CapMessage
                  => result.invalid[n].remanent <= 100 * Scale + Cent

\* A record with amount 0.01, ceiling 100 and remanent 99.99, the largest a
\* well-formed record has, is a candidate; it is rejected for the cap only.
C26_Witness ==
    /\ pc = "validate_transactions"
    /\ result.ok
    /\ raw[1].amount = Some(Cent)
    /\ raw[1].remanent = Some(100 * Scale - Cent)
    /\ \E n \in 1..Len(result.invalid) :
          /\ result.invalid[n].message = CapMessage
          /\ result.invalid[n].remanent = 100 * Scale - Cent

-----------------------------------------------------------------------------
(* The guards of compute_real_return inside calculate_returns (SpecReturns) *)

RealReturnErrors ==
    {"Invested amount cannot be negative.", "Inflation rate cannot be negative.",
     "Years must be greater than zero."}

\* The wage check of calculate_returns rejects the request.
WageIsNegative == wage # NaN /\ wage < 0

\* The adjusted remanents the temporal engine gives the remaining records.
ReturnsAdjusted ==
    LET prepared == _prepare_returns_transactions(raw).canonical_transactions
        adjusted == _apply_temporal_rules(prepared, q_periods, p_periods,
                                          OrderedIndices(prepared), "heap")
    IN  [i \in 1..Len(adjusted) |-> Val(adjusted[i].adjusted_remanent)]

\* C27: for accepted periods and transactions every adjusted_remanent and
\* every K-window amount is >= 0 and the horizon is >= 1 year for every
\* age >= 0; so calculate_returns, once past its age, wage and inflation
\* checks with at least one valid transaction, completes and returns a
\* result, and never fails with an error of compute_real_return.
C27_ReturnsCompletes ==
    pc = "calculate_returns" =>
        /\ \A a \in 0..120 : years_to_investment_horizon(a) >= 1
        /\ ~result.ok => result.error \notin RealReturnErrors
        /\ (age >= 0 /\ ~WageIsNegative /\ inflation >= 0 /\ Remaining(raw, Len(raw)) # {}) =>
              /\ result.ok
              /\ \A n \in 1..Len(result.savingsByDates) : result.savingsByDates[n].amount >= 0
              /\ \E adjusted \in {ReturnsAdjusted} :
                    \A i \in 1..Len(adjusted) : adjusted[i] >= 0


-----------------------------------------------------------------------------
(* Specification SpecParsed: an expense list is parsed by                  *)
(* build_transactions and the transactions it emits are submitted to       *)
(* validate_transactions under a cap that their remanents fit.             *)

\* Expense amounts with two and with three decimal places, on both sides of
\* a multiple of 100 and of the 500000 limit, and a negative one.
ParsedAmounts ==
    {0, 250 * Scale, 300 * Scale + 4, 300 * Scale - 4, AmountLimit - 4, AmountLimit,
     -(10 * Scale)}

\* Expenses keyed by timestamp, in either accepted format, at pairwise
\* distinct instants.
ParsedRaw ==
    {expenses \in SeqsUpTo({[date |-> None, timestamp |-> Some(ts), amount |-> Some(a),
                             ceiling |-> None, remanent |-> None] :
                                ts \in {FullTs(e) : e \in Epochs} \cup {ShortTs(e) : e \in Epochs},
                                a \in ParsedAmounts}, MaxTx) :
        \A i \in 1..Len(expenses), j \in 1..Len(expenses) :
            i # j => Val(expenses[i].timestamp).t # Val(expenses[j].timestamp).t}

InitParsed ==
    /\ pc = "ready"
    /\ raw \in ParsedRaw
    /\ transactions = <<>>
    /\ q_periods = <<>>
    /\ p_periods = <<>>
    /\ k_periods = <<>>
    /\ wage = 0
    /\ max_investment = None
    /\ instrument = "nps"
    /\ age = 0
    /\ inflation = 0
    /\ result = <<>>

\* validate_transactions(wage, transactions=build_transactions(...)["transactions"],
\* max_investment): the cap is the sum of the emitted remanents, or more.
CallValidateParsed ==
    /\ pc = "build_transactions"
    /\ result.ok
    /\ pc' = "validate_parsed"
    /\ transactions' = result.transactions
    /\ \E surplus \in {0, Cent, 100 * Scale} :
          max_investment' =
              Some(SumSeq([i \in 1..Len(result.transactions) |-> result.transactions[i].remanent])
                   + surplus)
    /\ result' = validate_transactions(wage,
                     [i \in 1..Len(result.transactions) |-> OutputAsInput(result.transactions[i])],
                     max_investment')
    /\ UNCHANGED <<raw, q_periods, p_periods, k_periods, wage, instrument, age, inflation>>

NextParsed == CallBuildTransactions \/ CallValidateParsed

SpecParsed == InitParsed /\ [][NextParsed]_vars

\* C28: for every expense list build_transactions accepts, with pairwise
\* distinct timestamps and amounts of any number of decimal places, the
\* validator, given the emitted transactions and a cap of at least the sum
\* of their remanents, puts every one of them in valid and none in invalid
\* or duplicates.
C28_ParsedIsValid ==
    pc = "validate_parsed" =>
        /\ result.ok
        /\ result.invalid = <<>>
        /\ result.duplicates = <<>>
        /\ Len(result.valid) = Len(transactions)
        /\ \A i \in 1..Len(transactions) :
              \E n \in EntriesOf(result.valid, i) :
                  /\ result.valid[n].date = transactions[i].date
                  /\ result.valid[n].amount = transactions[i].amount
                  /\ result.valid[n].ceiling = transactions[i].ceiling
                  /\ result.valid[n].remanent = transactions[i].remanent

====
